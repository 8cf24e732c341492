----------------------------- MODULE CompanyMoney -----------------------------
(***************************************************************************)
(* From a commitment to the bank: what is committed and settled            *)
(* (SpendControl), what the books say of it (AccountingBook), and the cash *)
(* that moves for it and its bank statements (Treasury).  The domain       *)
(* packages do not call each other; their values carry the references, and *)
(* callers bring them together in any order.                               *)
(***************************************************************************)
EXTENDS SpendControl, Treasury

\* What callers may ask for, a scope per behaviour: commitments, reservations
\* ([id, amount]), settlements, movements, statements, event identities,
\* account codes, the accounts that journals are to be of ([debit, credit]),
\* periods, and reconciliation reports.
CONSTANT Scopes

\* Callers give every commitment and every settlement an identity of its own.
ASSUME ScopesAssumption ==
  \A s \in Scopes :
    /\ \A c, d \in s.commitments : c.amount \in Nat /\ (c.id = d.id => c = d)
    /\ \A x, y \in s.settlements : x.id = y.id => x = y
    /\ s.movements \subseteq Movements /\ s.statements \subseteq Statements

VARIABLE scope

vars == <<scope, bookVars, spendVars, treasuryVars>>

Init ==
  /\ scope \in Scopes
  /\ BookInit /\ SpendInit /\ TreasuryInit

Spend ==
  \/ \E c \in scope.commitments : Propose(c)
  \/ \E c \in commitments :
       \/ \E to \in CommitmentStates : CommitmentStep(c, to)
       \/ \E r \in scope.reservations : Reserve(c, r.id, r.amount)
       \/ \E s \in scope.settlements : RequestSettlement(c, s)
  \/ \E r \in reservations : Consume(r) \/ GiveBack(r)
  \/ \E s \in settlements : \E to \in SettlementStates : SettlementStep(s, to)

Keep ==
  \/ \E code \in scope.accounts : AddAccount(code)
  \/ \E p \in scope.periods :
       \/ OpenPeriod(p) \/ SoftClose(p) \/ Close(p) \/ CloseReconciled(p, scope.reports)
       \/ \E j \in Journals(scope.postings) : Post(p, j)
  \/ \E id \in scope.events, a \in scope.postings :
       \/ \E c \in Recognisable : Recognise(c, id, a)
       \/ \E s \in Paid : Account(s, id, a)
  \/ \E e \in events : Append(e)

Move ==
  \/ \E m \in scope.movements : Request(m)
  \/ \E c \in movements : Approve(c) \/ Release(c) \/ Reconcile(c)
  \/ \E s \in scope.statements : Import(s)
  \/ \E id \in DOMAIN statements : ReconcileStatement(id) \/ ReconcileToLedger(id)

Next ==
  \/ Spend /\ UNCHANGED <<scope, bookVars, treasuryVars>>
  \/ Keep /\ UNCHANGED <<scope, spendVars, treasuryVars>>
  \/ Move /\ UNCHANGED <<scope, bookVars, spendVars>>

Spec == Init /\ [][Next]_vars

-----------------------------------------------------------------------------
(***************************************************************************)
(* Properties                                                              *)
(***************************************************************************)
TypeOK == BookTypeOK /\ SpendTypeOK /\ TreasuryTypeOK

\* The budget line is never overrun, though a commitment may reserve more than
\* once and a reservation be consumed or given back more than once (BudgetLine,
\* BudgetReservation).
BudgetHolds == budget.reserved + budget.consumed <= Allocated

\* Was the source of a journal performed or paid, for the amount of the journal?
\* Its accounts are the caller's choice.
Backed(j) ==
  LET accounts == [debit |-> j.debit, credit |-> j.credit]
  IN \/ \E c \in Recognisable : j = RecognitionJournal(c, accounts)
     \/ \E s \in Paid : /\ j = SettlementJournal(s, accounts)
                        /\ \E c \in Recognisable : c.of.id = s.of.commitment

\* The books tell of what happened: a source is in the ledger and in the log at
\* most once, in both for the same amount, and it was performed, or paid for a
\* commitment that was (recognition_journal, to_journal, post, append).  They may
\* tell of it under different accounts, which nothing compares.
BooksBacked ==
  /\ \A j \in book.ledger \cup {e.journal : e \in log} : Backed(j)
  /\ \A j, k \in book.ledger : j.id = k.id => j = k
  /\ \A e, f \in log : e.journal.id = f.journal.id => e = f
  /\ \A j \in book.ledger, e \in log : j.id = e.journal.id => j.amount = e.journal.amount

\* Money that left the account on a statement traced to the ledger went out for
\* a commitment that was performed, or a settlement paid for one, of the amount of
\* the line (reconcile_to_ledger); whether the books hold the event is not looked at.
MoneyBacked ==
  \A id \in DOMAIN statements : statements[id].state = "ledger" =>
    \A l \in statements[id].of.lines :
      \E e \in events : e.id = statements[id].ledger[l.id] /\ e.journal.amount = l.amount
                          /\ Backed(e.journal)

\* A bank statement that is reconciled is cash that moved, and one traced to the
\* ledger leads from every line to an event of its own and to what was paid for
\* (BankStatement::reconcile, reconcile_to_ledger).
StatementsBacked == TypeOK /\ StatementIsCash /\ LedgerIsTraced /\ MoneyBacked

Rank == [open |-> 1, soft_closed |-> 2, closed |-> 3]

\* A period only moves on to its close, and nothing is entered while none is
\* open (post, change_period, open_period).
PeriodsMoveOn ==
  [][/\ \A p \in DOMAIN book.periods : Rank[book.periods[p]] <= Rank[book'.periods[p]]
     /\ book'.ledger # book.ledger =>
          \E p \in DOMAIN book.periods : book.periods[p] = "open"]_vars

=============================================================================
