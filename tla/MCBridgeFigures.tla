--------------------------- MODULE MCBridgeFigures ---------------------------
(***************************************************************************)
(* Small worlds for the reads on work and money.  In each one a few tables *)
(* hold at most two rows, one of several that the source may hold, and one *)
(* or two local records are written beside them.                           *)
(***************************************************************************)
EXTENDS BridgeDashboards

\* The rows that differ in the given fields, the others as they usually are.
With(usual, rows) == {r @@ usual : r \in rows}

Draft(rows) == {r @@ [state |-> Absent] : r \in rows}

Projects1 ==
  With([id |-> "j1", gone |-> FALSE, unit |-> "u1", busy |-> TRUE], {<<>>})

Projects2 ==
  With([id |-> "j1", busy |-> TRUE], [gone : BOOLEAN, unit : {"u1"}])

Contract ==
  [id |-> "c1", gone |-> FALSE, proj |-> "j1", unit |-> "u1", leaf |-> "l1",
   state |-> "signed", r |-> "R1", settled |-> FALSE, amount |-> 1]

Apply ==
  [id |-> "a1", gone |-> FALSE, contract |-> "c1", proj |-> "j1", unit |-> "u1",
   month |-> 1, apply |-> "approved", pay |-> "unpaid"]

Expense ==
  [id |-> "e1", gone |-> FALSE, unit |-> "u1", proj |-> "j1", month |-> 1,
   apply |-> "Approved", pay |-> "unpaid", paid |-> FALSE, amount |-> 1]

Task ==
  [id |-> "t1", gone |-> FALSE, proj |-> "j1", type |-> "key_node",
   state |-> "in_progress", begin |-> 1, end |-> 3]

Cost ==
  [id |-> "k1", gone |-> FALSE, proj |-> "j1", end |-> TRUE, target |-> 100,
   cost |-> 100]

Milestone ==
  [id |-> "m1", contract |-> "c1", trigger |-> "time", state |-> "pending",
   day |-> 9, task |-> "t1", reached |-> FALSE, planned |-> 1, paid |-> 0]

Instance ==
  [id |-> "i1", gone |-> FALSE, process |-> "q1", biz |-> "a1", state |-> "Running",
   by |-> "v", at |-> 1, unit |-> "u1", proj |-> "j1", type |-> "payment"]

\* Plan tasks: a staged one, a local one of the same identity, one more.
Work ==
  [underway |-> 1, imports |-> [project |-> Projects1,
                task |-> With(Task, [gone : BOOLEAN, state : {"done", "overdue"},
                                     end : {3, 12}]),
                report |-> {[id |-> "r1", task |-> "t1"]},
                progress |-> {[id |-> "g1", gone |-> FALSE, unit |-> "u1", proj |-> "j1",
                               state |-> "pending"]}],
   drafts |-> [plan_task |-> Draft([id : {"t1", "t2"}, proj : {"j1"}, type : {"task"},
                                    begin : {4}, end : {6}]),
               task_report |-> {}, progress |-> {}]]

\* Progress and output reported on a project, and a project recorded here.
Reported ==
  [underway |-> 1, imports |-> [project |-> Projects1,
                task |-> With(Task, [state : {"overdue"}]),
                progress |-> {[id |-> "g1", gone |-> FALSE, unit |-> "u1", proj |-> "j1",
                               state |-> "pending"]},
                output |-> {}],
   drafts |-> [progress |-> {}, output |-> Draft({[id |-> "o1", proj |-> "j1"]}),
               project |-> Draft({[id |-> "j2", stages |-> ""]})]]

\* Approvals: who initiated one and acted on it, and how long ago.
Approvals ==
  [underway |-> 1, imports |-> [project |-> Projects1,
                apply |-> With(Apply, [gone : BOOLEAN]),
                expense |-> With(Expense, [unit : {"u1", "u2"}]),
                instance |-> With(Instance, [id : {"i1"}, biz : {"a1", "e1"},
                                             state : {"Running", "Completed"}, at : {1, 9}])
                  \cup With(Instance, [id : {"i2"}, biz : {"a1"}, at : {2}]),
                action |-> [id : {"x1"}, instance : {"i1"}, user : {"w"}],
                process |-> {[id |-> "q1", key |-> "pay"]},
                step |-> {[id |-> "s1", process |-> "q1"]}, assignee |-> {}],
   drafts |-> <<>>]

\* Findings that come and go, decided on one by one.
Deciding ==
  [underway |-> 1, imports |-> [contract |-> With(Contract, [id : {"c1", "c2"}, proj : {""}]),
                apply |-> With(Apply, [contract : {""}]),
                loan |-> {}, supplier |-> {}, offset |-> {}, user |-> {}, share |-> {}],
   drafts |-> [warning |-> Draft([id : {<<"W002", "c1">>, <<"W002", "c2">>,
                                        <<"W003", "a1">>}])]]

\* Two users' messages.
Inbox ==
  [underway |-> 2, imports |-> [message |-> [id : {"m1"}, user : {"v"}, read : BOOLEAN]
                  \cup [id : {"m2"}, user : {"v", "w"}, read : {FALSE}]],
   drafts |-> [message |-> Draft([id : {"x1"}, by : {"v"}, type : {"read"},
                                  messages : {{"m1"}}]
                   \cup [id : {"x2"}, by : {"v"}, type : {"read_all"}, messages : {{}}])]]

\* What a user has subscribed to, in the source and here.
Subscribed ==
  [underway |-> 2, imports |-> [subscription |-> {[id |-> "b1", user |-> "v"]}],
   drafts |-> [subscription |-> Draft([id : {"b1", "b2"}, by : {"v"}])]]

\* What was applied for and paid in a project of a unit.
Spending ==
  [underway |-> 1, imports |-> [project |-> Projects2,
                contract |-> With(Contract, [gone : BOOLEAN, r : {"", "R1"}]),
                apply |-> With(Apply, [id : {"a1", "a2"}, gone : BOOLEAN,
                                       unit : {"u1", "u2"}, pay : {"unpaid", "part"}]),
                unit |-> {[id |-> "u1", gone |-> FALSE, company |-> TRUE]}],
   drafts |-> <<>>]

\* What uses up a leaf of the cost plan.
Breakdown ==
  [underway |-> 1, imports |-> [project |-> Projects1,
                contract |-> With(Contract, [gone : BOOLEAN, r : {"", "R1"},
                                             state : {"signed", "approving", "paid"}]),
                expense |-> With(Expense, [gone : BOOLEAN,
                                           apply : {"approving", "Approved", "Approving"}]),
                share |-> {[id |-> "d1", gone |-> FALSE, expense |-> "e1", leaf |-> "l1",
                            proj |-> "j1", r |-> "R1"]},
                change |-> [id : {"h1"}, gone : {FALSE}, proj : {"j1"}, contract : {"c1"},
                            leaf : {"l1"}, state : {"confirmed", "estimated"}],
                version |-> [id : {"v1"}, gone : {FALSE}, proj : {"j1"}, active : BOOLEAN],
                leaf |-> [id : {"l1"}, gone : {FALSE}, proj : {"j1"}, unit : {"u1"},
                          version : {"v1"}, code : {"l1"}, r : {"R1"}, amount : {1}],
                rule |-> {}],
   drafts |-> <<>>]

\* A project with two versions of its cost plan, both active or not, and with two
\* leaves, of one code and version or not.
Versions ==
  [underway |-> 1, imports |-> [project |-> Projects1,
                contract |-> With(Contract, [id : {"c1", "c2"}]),
                version |-> [id : {"v1", "v2"}, gone : {FALSE}, proj : {"j1"},
                             active : BOOLEAN],
                leaf |-> [id : {"l1"}, gone : {FALSE}, proj : {"j1"}, unit : {"u1"},
                          version : {"v1"}, code : {"l1"}, r : {"R1"}, amount : {1}]
                  \cup [id : {"l2"}, gone : {FALSE}, proj : {"j1"}, unit : {"u1"},
                        version : {"v1", "v2"}, code : {"l1", "l2"}, r : {"R1"},
                        amount : {1, 2}]],
   drafts |-> <<>>]

\* Costs, local ones beside them, and the key nodes they are ranked with.
Costs ==
  [underway |-> 1, imports |-> [project |-> Projects2,
                cost |-> With(Cost, [gone : BOOLEAN, end : BOOLEAN, cost : {50, 103}]),
                task |-> With(Task, [state : {"done", "in_progress", "overdue"},
                                     end : {3, 12}])],
   drafts |-> [dynamic_cost |-> Draft({[id |-> i, proj |-> "j1", end |-> TRUE,
                                        target |-> 1, cost |-> 1] : i \in {"k1", "k2"}})]]

\* Milestones that fall due, and local revisions of them.
Falling ==
  [underway |-> 1, imports |-> [contract |-> {Contract},
                milestone |-> With(Milestone, [gone : BOOLEAN, day : {10, 12, 30},
                                               trigger : {"time", "progress", "event"}]),
                task |-> {Task}, revenue |-> {}],
   drafts |-> [milestone |-> Draft(With(Milestone, [id : {"m1"}]))]]

\* The stages of two projects, one of them with two instances of stages.
Stages ==
  [underway |-> 1, imports |-> [project |-> With([busy |-> FALSE, unit |-> "u1"],
                                 [id : {"j1", "j2"}, gone : BOOLEAN]),
                stage |-> [id : {"s1", "s2"}],
                stage_of |-> {[id |-> i, proj |-> "j1", stage |-> s, state |-> t] :
                                i \in {"i1", "i2"}, s \in {"s1", "s2"},
                                t \in {"pending", "in_progress", "done"}}],
   drafts |-> <<>>]

\* Invoices, staged and local.
Billed ==
  [underway |-> 1, imports |-> [project |-> Projects1,
                invoice |-> [id : {"n1"}, gone : BOOLEAN, proj : {"j1"}, contract : {"c1"},
                             unit : {"u1"}, out : BOOLEAN, month : {0, 1}, state : {""}]],
   drafts |-> [invoice |-> Draft([id : {"n1", "n2"}, proj : {"j1"}, contract : {"c1"},
                                  out : {TRUE}, month : {1}]),
               revenues |-> {}]]

\* Fund plans, staged and local.
Funds ==
  [underway |-> 1, imports |-> [project |-> Projects1,
                fund_plan |-> [id : {"f1"}, gone : BOOLEAN, proj : {"j1"}, unit : {"u1"},
                               period : {1}, out : BOOLEAN],
                fund_dispatch |-> {}],
   drafts |-> [fund_plan |-> Draft([id : {"f1", "f2"}, proj : {"j1"}, period : {2},
                                    out : {TRUE}]),
               fund_dispatch |-> {}, loan |-> {}]]

\* What is to be paid and to be received in two months.
Months ==
  [underway |-> 1, imports |-> [project |-> Projects1,
                contract |-> With(Contract, [gone : BOOLEAN, proj : {"j1"}]),
                plan |-> [id : {"p1"}, gone : BOOLEAN, contract : {"c1"}, unit : {"u1"},
                          month : {1, 2}],
                apply |-> With(Apply, [apply : {"approving", "approved"}, month : {1, 2}]),
                revenue |-> [id : {"y1"}, gone : BOOLEAN, proj : {"j1"}, unit : {"u1"},
                             state : {"expected", "received", "overdue"}, month : {1},
                             day : {3, 12}],
                loan |-> [id : {"b1"}, gone : BOOLEAN, proj : {"j1"}, unit : {"u1"},
                          month : {1}, apply : {"Approved", "Draft"}, remains : {TRUE},
                          balanced : {TRUE}]],
   drafts |-> <<>>]

\* Sales, tenders and approvals of two scopes.
Sold ==
  [underway |-> 1, imports |-> [project |-> Projects2,
                sale |-> [id : {"x1"}, gone : BOOLEAN, unit : {"u1"}, proj : {"j1"},
                          state : {"signed"}],
                mortgage |-> [id : {"g1"}, gone : {FALSE}, sale : {"x1", "x2"},
                              state : {"released"}],
                refund |-> [id : {"g2"}, gone : {FALSE}, sale : {"x1"},
                            state : {"approved"}],
                tender |-> [id : {"t1"}, gone : BOOLEAN, unit : {"u1"}, proj : {"j1"},
                            state : {"bidding"}],
                award |-> [id : {"w1"}, gone : {FALSE}, tender : {"t1", "t2"}],
                instance |-> With(Instance, [unit : {"u1", ""}, proj : {"j1", ""}]),
                customer |-> {}, subscribed |-> {}, found |-> {}],
   drafts |-> <<>>]

MCScopes ==
  {Work, Reported, Approvals, Deciding, Inbox, Subscribed, Spending, Breakdown,
   Versions, Costs, Falling, Stages, Billed, Funds, Months, Sold}

\* What the properties suppose of a world is so.
ASSUME FiguresWorlds == HasInbox /\ HasFindings /\ HasWork /\ HasFigures

=============================================================================
