--------------------------- MODULE MCBridgeRecords ---------------------------
(***************************************************************************)
(* Small worlds for the reads on spending and suppliers.  Each holds one   *)
(* or two rows of a few tables, of all the kinds the source may hold, and  *)
(* one or two local records beside them, one of the same identity.         *)
(***************************************************************************)
EXTENDS BridgeSpendingViews, BridgeSupplierViews

MCWithin ==
  {<<"ac", "ac">>, <<"ac", "acme">>, <<"acme", "acme">>, <<"ac", "acme ltd">>,
   <<"acme", "acme ltd">>}

\* Contracts and applications: a contract of each unit, deleted or not.
MCContracts == [id : {"c1"}, gone : BOOLEAN, unit : {"u1", "u2"}, supplier : {""}]

MCApplies ==
  [id : {"a1"}, gone : BOOLEAN, contract : {"c1"}, plan : {"p1"},
   unit : {"u1", "u2"}, by : {"v"}, apply : {"approving", "approved"},
   pay : {"unpaid", "part", "full"}]

MCPlans ==
  [id : {"p1"}, contract : {"c1"}, unit : {"u1"}, trigger : {"time", "event"},
   planned : {1}, due : BOOLEAN]

\* One supplier, unqualified or not.
MCSuppliers ==
  [id : {"s1"}, gone : {FALSE}, name : {"acme"}, short : {""}, barred : BOOLEAN,
   inspected : {TRUE}, enabled : {"yes"}]

Draft(ids, rest) == {[id |-> i, state |-> Absent] @@ r : i \in ids, r \in rest}

None == {<<>>}

\* Contracts and the applications drawn on them.
Drawn ==
  [underway |-> 1, imports |-> [contract |-> MCContracts, apply |-> MCApplies, plan |-> MCPlans],
   drafts |-> [contract |-> Draft({"c1"}, None), milestone |-> {}]]

\* Applications, staged and local.
Payments ==
  [underway |-> 1, imports |-> [contract |-> MCContracts, apply |-> MCApplies],
   drafts |-> [payment |-> Draft({"a1", "a2"}, [contract : {"c1"}, by : {"v"}])]]

\* Contracts and their milestones, staged and local.
Signed ==
  [underway |-> 1, imports |-> [contract |-> {c \in MCContracts : c.unit = "u1"},
                plan |-> {p \in MCPlans : p.trigger = "time"},
                milestone |-> [id : {"m1"}, contract : {"c1"}, overdue : {FALSE}]],
   drafts |-> [contract |-> Draft({"c1", "c2"}, None),
               milestone |-> Draft({"n1"}, [contract : {"c1", "c2"}])]]

\* A supplier, deleted, unqualified or not, and its local revisions.
Barring ==
  [underway |-> 1, imports |-> [supplier |-> [id : {"s1"}, gone : BOOLEAN, name : {"acme"},
                              short : {""}, barred : BOOLEAN,
                              inspected : BOOLEAN, enabled : {"yes", ""}],
                contract |-> {}, milestone |-> {}],
   drafts |-> [supplier |-> Draft({"s1"}, {[enabled |-> TRUE, verdict |-> "reviewed"],
                                           [enabled |-> FALSE, verdict |-> "unqualified"]})]]

\* A supplier known to contracts by one name or another.
Renamed ==
  [underway |-> 1, imports |-> [supplier |-> [id : {"s1"}, gone : BOOLEAN, name : {"acme"},
                              short : {"", "ac"}, barred : BOOLEAN,
                              inspected : {TRUE}, enabled : {"yes"}],
                contract |-> [id : {"c3"}, gone : {FALSE}, unit : {""},
                              supplier : {"", "acme"}]
                  \cup [id : {"c4"}, gone : {FALSE}, unit : {""},
                        supplier : {"ac", "acme ltd"}],
                milestone |-> [id : {"m3"}, contract : {"c3"}, overdue : BOOLEAN]],
   drafts |-> [supplier |-> Draft({"s1"}, {[enabled |-> TRUE, verdict |-> "reviewed"]})]]

\* A supplier that two commands revise at once.
Crossing ==
  [underway |-> 2, imports |-> [supplier |-> MCSuppliers, contract |-> {}, milestone |-> {}],
   drafts |-> [supplier |-> Draft({"s1"}, [enabled : {TRUE}, verdict : {"unqualified"}])]]

\* Tenders and splits, staged and local.
Tendered ==
  [underway |-> 1, imports |-> [tender |-> [id : {"t1"}, proj : {"j1"}, state : {"planning"}],
                award |-> [id : {"w1"}, tender : {"t1"}],
                split |-> [id : {"x1"}, parent : {"c1"}, proj : {"j1"}]],
   drafts |-> [tender |-> Draft({"t1", "t2"}, [proj : {"j1"}]),
               split |-> Draft({"x1", "x2"}, [parent : {"c1"}])]]

\* Expense claims, staged and local.
Claimed ==
  [underway |-> 1, imports |-> [expense |-> [id : {"e1"}, gone : BOOLEAN, by : {"v"},
                             state : {"draft", "approved"}],
                detail |-> [id : {"d1"}, expense : {"e1"}]],
   drafts |-> [expense |-> Draft({"e1"}, None)]]

MCScopes ==
  {Drawn, Payments, Signed, Barring, Renamed, Crossing, Tendered, Claimed}

\* What the properties suppose of a world is so.
ASSUME RecordsWorlds == HasProcurement /\ HasSpending

=============================================================================
