----------------------------- MODULE SpendControl -----------------------------
(***************************************************************************)
(* What the company commits itself to pay, the budget line that is to      *)
(* cover it, and the settlements it pays with (operations/commitment,      *)
(* operations/settlement, finance/budget).  The budget line is kept at its *)
(* latest value; commitments, reservations and settlements are immutable   *)
(* values, and callers may present any that was ever returned.             *)
(***************************************************************************)
EXTENDS AccountingBook

CONSTANT Allocated  \* what the budget line has
ASSUME AllocatedAssumption == Allocated \in Nat

VARIABLES
  budget,        \* [reserved, consumed]
  commitments,   \* [of, state], where of is [id, amount]
  reservations,  \* [id, commitment, amount]
  settlements    \* [of, state], where of is [id, commitment, amount]

spendVars == <<budget, commitments, reservations, settlements>>

SpendInit ==
  /\ budget = [reserved |-> 0, consumed |-> 0]
  /\ commitments = {} /\ reservations = {} /\ settlements = {}

-----------------------------------------------------------------------------
(***************************************************************************)
(* Commitments                                                             *)
(***************************************************************************)
Propose(c) ==
  /\ commitments' = commitments \cup {[of |-> c, state |-> "draft"]}
  /\ UNCHANGED <<budget, reservations, settlements>>

CommitmentSteps ==
  {<<"draft", "submitted">>, <<"submitted", "approved">>,
   <<"approved", "performed">>, <<"performed", "settled">>}
    \cup ({"draft", "submitted", "approved", "performed"} \X {"cancelled"})

CommitmentStates == {step[2] : step \in CommitmentSteps}

CommitmentStep(c, to) ==
  /\ <<c.state, to>> \in CommitmentSteps
  /\ commitments' = commitments \cup {[c EXCEPT !.state = to]}
  /\ UNCHANGED <<budget, reservations, settlements>>

-----------------------------------------------------------------------------
(***************************************************************************)
(* The budget line                                                         *)
(***************************************************************************)
\* Fault: what was consumed is forgotten.
Available_Reserved == Allocated - budget.reserved

Available == Allocated - budget.reserved - budget.consumed

\* reserve_budget: the line does not remember for whom.
Reserve(c, id, amount) ==
  /\ c.state \in {"draft", "submitted"}
  /\ amount \in 1..c.of.amount
  /\ amount <= Available
  /\ budget' = [budget EXCEPT !.reserved = @ + amount]
  /\ reservations' = reservations \cup
       {[id |-> id, commitment |-> c.of.id, amount |-> amount]}
  /\ UNCHANGED <<commitments, settlements>>

Consume(r) ==
  /\ r.amount <= budget.reserved
  /\ budget' = [reserved |-> budget.reserved - r.amount,
                consumed |-> budget.consumed + r.amount]
  /\ UNCHANGED <<commitments, reservations, settlements>>

GiveBack(r) ==
  /\ r.amount <= budget.reserved
  /\ budget' = [budget EXCEPT !.reserved = @ - r.amount]
  /\ UNCHANGED <<commitments, reservations, settlements>>

-----------------------------------------------------------------------------
(***************************************************************************)
(* Settlements                                                             *)
(***************************************************************************)
Payable(c) == c.state = "performed"

\* Each settlement is measured against the commitment by itself.
RequestSettlement(c, s) ==
  /\ s.commitment = c.of.id
  /\ Payable(c)
  /\ s.amount \in 1..c.of.amount
  /\ settlements' = settlements \cup {[of |-> s, state |-> "requested"]}
  /\ UNCHANGED <<budget, commitments, reservations>>

SettlementSteps ==
  {<<"requested", "approved">>, <<"approved", "released">>, <<"released", "reconciled">>,
   <<"requested", "rejected">>, <<"approved", "rejected">>}

SettlementStates == {step[2] : step \in SettlementSteps}

SettlementStep(s, to) ==
  /\ <<s.state, to>> \in SettlementSteps
  /\ settlements' = settlements \cup {[s EXCEPT !.state = to]}
  /\ UNCHANGED <<budget, commitments, reservations>>

-----------------------------------------------------------------------------
(***************************************************************************)
(* What goes into the books: the values that may be recognised, and their  *)
(* journals                                                                *)
(***************************************************************************)
Recognisable == {c \in commitments : c.state = "performed"}

Paid == {s \in settlements : s.state \in {"released", "reconciled"}}

\* Both journals are of the accounts ([debit, credit]) that the caller names.
RecognitionJournal(c, accounts) ==
  [id |-> <<"commitment", c.of.id>>, debit |-> accounts.debit, credit |-> accounts.credit,
   amount |-> c.of.amount]

SettlementJournal(s, accounts) ==
  [id |-> <<"settlement", s.of.id>>, debit |-> accounts.debit, credit |-> accounts.credit,
   amount |-> s.of.amount]

Journals(accounts) ==
  {RecognitionJournal(c, a) : c \in Recognisable, a \in accounts}
    \cup {SettlementJournal(s, a) : s \in Paid, a \in accounts}

Recognise(c, id, accounts) == Build(id, "commitment", c.of.id, RecognitionJournal(c, accounts))

Account(s, id, accounts) == Build(id, "settlement", s.of.id, SettlementJournal(s, accounts))

SpendTypeOK ==
  /\ budget.reserved \in Nat /\ budget.consumed \in Nat
  /\ \A s \in settlements : \E c \in commitments :
       c.of.id = s.of.commitment /\ s.of.amount \in 1..c.of.amount

=============================================================================
