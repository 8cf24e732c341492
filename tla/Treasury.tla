------------------------------- MODULE Treasury -------------------------------
(***************************************************************************)
(* One cash account, its movements and its bank statements                 *)
(* (finance/treasury).  Account and statements are kept at their latest    *)
(* value; a movement is an immutable value, and callers may present any    *)
(* value the operations ever returned, including one that was overtaken.   *)
(* Authority is checked in AccessDirectory and left out here.              *)
(***************************************************************************)
EXTENDS AccountingBook

CONSTANTS
  Opening,     \* opening balance
  Movements,   \* movements that may be requested: [id, ref, amount, inflow]
  Statements   \* statements that may be imported: [id, opening, closing, lines],
               \* a line is [id, amount, inflow]

ASSUME OpeningAssumption == Opening \in Nat
ASSUME MovementsAssumption == \A m \in Movements : m.amount \in Nat \ {0}
\* from_statement refuses a line identity used twice.
ASSUME StatementsAssumption ==
  \A s \in Statements :
    /\ s.opening \in Int /\ s.closing \in Int /\ IsFiniteSet(s.lines)
    /\ \A l, k \in s.lines : l.id = k.id => l = k

VARIABLES
  account,     \* [balance, applied]
  movements,   \* every movement value returned so far: [of, state]
  statements   \* statements by id: [of, state, matches, ledger]

treasuryVars == <<account, movements, statements>>

StatementIds == {s.id : s \in Statements}
MovementIds  == {m.id : m \in Movements}

TreasuryTypeOK ==
  /\ account.balance \in Nat /\ account.applied \subseteq MovementIds
  /\ movements \subseteq
       [of : Movements, state : {"requested", "approved", "released", "reconciled"}]
  /\ DOMAIN statements \subseteq StatementIds
  /\ \A id \in DOMAIN statements :
       LET s == statements[id]
           Lines == {l.id : l \in s.of.lines}
       IN  CASE s.state = "imported" -> s.matches = <<>> /\ s.ledger = <<>>
             [] s.state = "reconciled" ->
                  s.matches \in [Lines -> MovementIds] /\ s.ledger = <<>>
             [] s.state = "ledger" ->
                  /\ s.matches \in [Lines -> MovementIds]
                  /\ s.ledger \in [Lines -> {e.id : e \in events}]

TreasuryInit ==
  /\ account = [balance |-> Opening, applied |-> {}]
  /\ movements = {} /\ statements = <<>>

Signed(x) == IF x.inflow THEN x.amount ELSE - x.amount
Total(set) == MapThenSumSet(Signed, set)

Injections(S, T) == {f \in [S -> T] : \A x, y \in S : f[x] = f[y] => x = y}

\* The reviewed matches: every line exactly once, no target twice.
Pairings(lines, targets) == Injections({l.id : l \in lines}, targets)

-----------------------------------------------------------------------------
Request(m) ==
  /\ movements' = movements \cup {[of |-> m, state |-> "requested"]}
  /\ UNCHANGED <<account, statements>>

Approve(c) ==
  /\ c.state = "requested"
  /\ movements' = movements \cup {[c EXCEPT !.state = "approved"]}
  /\ UNCHANGED <<account, statements>>

\* Fault: the account does not remember what it applied.
Applied_Unremembered(c) ==
  [balance |-> account.balance + Signed(c.of), applied |-> account.applied]

Applied(c) ==
  [balance |-> account.balance + Signed(c.of),
   applied |-> account.applied \cup {c.of.id}]

Covered(c) == c.of.inflow \/ account.balance >= c.of.amount

\* CashAccount::release: account and movement move on together.
Release(c) ==
  /\ c.state = "approved"
  /\ c.of.id \notin account.applied
  /\ Covered(c)
  /\ account' = Applied(c)
  /\ movements' = movements \cup {[c EXCEPT !.state = "released"]}
  /\ UNCHANGED statements

Reconcile(c) ==
  /\ c.state = "released"
  /\ movements' = movements \cup {[c EXCEPT !.state = "reconciled"]}
  /\ UNCHANGED <<account, statements>>

\* BankStatement::from_statement; its lines explain its balances.
Import(s) ==
  /\ s.id \notin DOMAIN statements
  /\ s.closing = s.opening + Total(s.lines)
  /\ statements' = [id \in DOMAIN statements \cup {s.id} |->
       IF id = s.id THEN [of |-> s, state |-> "imported", matches |-> <<>>,
                          ledger |-> <<>>]
       ELSE statements[id]]
  /\ UNCHANGED <<account, movements>>

\* Fault: a movement that was only approved may match.
Matches_Unreleased(c, line) ==
  c.of.amount = line.amount /\ c.of.inflow = line.inflow

Matches(c, line) ==
  /\ c.state \in {"released", "reconciled"}
  /\ c.of.amount = line.amount /\ c.of.inflow = line.inflow

\* BankStatement::reconcile
ReconcileStatement(id) ==
  /\ statements[id].state = "imported"
  /\ \E f \in Pairings(statements[id].of.lines, MovementIds) :
       /\ \A l \in statements[id].of.lines :
            \E c \in movements : c.of.id = f[l.id] /\ Matches(c, l)
       /\ statements' = [statements EXCEPT ![id].state = "reconciled",
                                           ![id].matches = f]
  /\ UNCHANGED <<account, movements>>

Traces(e, c, line) == e.journal.amount = line.amount /\ e.source = c.of.ref

\* BankStatement::reconcile_to_ledger; the movement values are the caller's.
ReconcileToLedger(id) ==
  /\ statements[id].state = "reconciled"
  /\ \E f \in Pairings(statements[id].of.lines, {e.id : e \in events}) :
       /\ \A l \in statements[id].of.lines :
            \E e \in events, c \in movements :
              /\ e.id = f[l.id] /\ c.of.id = statements[id].matches[l.id]
              /\ Traces(e, c, l)
       /\ statements' = [statements EXCEPT ![id].state = "ledger",
                                           ![id].ledger = f]
  /\ UNCHANGED <<account, movements>>

-----------------------------------------------------------------------------
(***************************************************************************)
(* Properties.                                                             *)
(***************************************************************************)

Released == {c.of : c \in {x \in movements : x.state = "released"}}

\* Cash moves once per movement, whatever stale values are presented: the
\* balance is the opening one and the released movements, each id once.
BalanceExplained ==
  /\ account.balance = Opening + Total(Released)
  /\ account.applied = {m.id : m \in Released}
  /\ \A m, n \in Released : m.id = n.id => m = n

\* A reconciled statement is cash that moved: its lines are, one to one,
\* movements the account applied in that amount and direction.
StatementIsCash ==
  \A id \in DOMAIN statements :
    LET s == statements[id]
    IN  s.state # "imported" =>
          /\ \A l \in s.of.lines : \E m \in Released :
               m.id = s.matches[l.id] /\ Signed(m) = Signed(l)
          /\ s.of.closing - s.of.opening =
               Total({m \in Released : \E l \in s.of.lines : m.id = s.matches[l.id]})

\* A line traced to the ledger leads to the event of a movement with the id it
\* was matched with, and every line to an event of its own.
LedgerIsTraced ==
  \A id \in DOMAIN statements :
    LET s == statements[id]
    IN  s.state = "ledger" =>
          /\ \A l, k \in s.of.lines : s.ledger[l.id] = s.ledger[k.id] => l = k
          /\ \A l \in s.of.lines : \E e \in events, c \in movements :
               /\ e.id = s.ledger[l.id] /\ e.journal.amount = l.amount
               /\ c.of.id = s.matches[l.id] /\ c.of.ref = e.source

=============================================================================
