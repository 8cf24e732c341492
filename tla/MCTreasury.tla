------------------------------ MODULE MCTreasury ------------------------------
(***************************************************************************)
(* Instances of CompanyMoney for TLC, each a part of the way from the      *)
(* commitment to the bank.                                                 *)
(***************************************************************************)
EXTENDS CompanyMoney, TLC

Mv(id, ref, amount, inflow) ==
  [id |-> id, ref |-> ref, amount |-> amount, inflow |-> inflow]
Line(id, amount, inflow) == [id |-> id, amount |-> amount, inflow |-> inflow]

Nothing ==
  [commitments |-> {}, reservations |-> {}, settlements |-> {}, movements |-> {},
   statements |-> {}, events |-> {}, accounts |-> {}, postings |-> {}, periods |-> {},
   reports |-> {}]

Accounts(debit, credit) == [debit |-> debit, credit |-> credit]

Bill == [id |-> "bill", amount |-> 2]

Part(id, amount) == [id |-> id, commitment |-> "bill", amount |-> amount]

\* Two commitments that the budget line cannot both cover.
Budgeting ==
  [commitments |-> {Bill, [id |-> "rent", amount |-> 2]},
   reservations |-> {[id |-> "r1", amount |-> 1], [id |-> "r2", amount |-> 2]}] @@ Nothing

\* One commitment with its settlement, a period to enter them in, and a report
\* of two differences that make up for each other.
Bookkeeping ==
  [commitments |-> {Bill}, settlements |-> {Part("s1", 2)},
   events |-> {"e1", "e2"}, accounts |-> {"payable", "cash"},
   postings |-> {Accounts("payable", "cash")}, periods |-> {"may"},
   reports |-> {{[ref |-> "s1", expected |-> 2, actual |-> 1],
                 [ref |-> "bill", expected |-> 1, actual |-> 2]}}] @@ Nothing

\* One commitment that is entered under one pair of accounts or another.
Choosing ==
  [commitments |-> {Bill}, events |-> {"e1", "e2"},
   accounts |-> {"expense", "stock", "payable"},
   postings |-> {Accounts("expense", "payable"), Accounts("stock", "payable")},
   periods |-> {"may"}] @@ Nothing

\* A settlement has the identity of the commitment, and two movements have one
\* identity: which of them a line is traced to is the callers' choice.
Paying ==
  [commitments |-> {Bill}, settlements |-> {Part("bill", 1), Part("s1", 2)},
   events |-> {"e1"}, postings |-> {Accounts("payable", "cash")},
   movements |-> {Mv("m1", "bill", 2, FALSE), Mv("m1", "s1", 2, FALSE)},
   statements |-> {[id |-> "may", opening |-> 2, closing |-> 0,
                    lines |-> {Line("l1", 2, FALSE)}]}] @@ Nothing

\* An inflow, two outflows of one amount that the account cannot both afford at
\* first, and a second movement under the id of one of them.
Moving ==
  [movements |->
     {Mv("in", "sale", 3, TRUE), Mv("out1", "bill1", 2, FALSE),
      Mv("out2", "bill2", 2, FALSE), Mv("out2", "bill3", 1, FALSE)},
   statements |->
     {[id |-> "may", opening |-> 2, closing |-> 3,
       lines |-> {Line("l1", 3, TRUE), Line("l2", 2, FALSE)}],
      [id |-> "june", opening |-> 3, closing |-> -1,
       lines |-> {Line("l1", 2, FALSE), Line("l2", 2, FALSE)}],
      [id |-> "typo", opening |-> 3, closing |-> 3,
       lines |-> {Line("l1", 2, FALSE)}]}] @@ Nothing

MCScopes == {Budgeting, Bookkeeping, Choosing, Paying, Moving}
MCMovements == UNION {s.movements : s \in MCScopes}
MCStatements == UNION {s.statements : s \in MCScopes}

=============================================================================
