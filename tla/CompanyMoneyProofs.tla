-------------------------- MODULE CompanyMoneyProofs --------------------------
(***************************************************************************)
(* Proofs about the company's money, for any commitments, settlements,     *)
(* movements and accounts: the budget line is not overrun, the books tell  *)
(* of what was performed or paid, once, periods only move on, the balance  *)
(* is every released movement once, and a reconciled bank statement is     *)
(* cash that moved.  Values are immutable and callers may present old      *)
(* ones, so the argument rests on what no value can take back: a           *)
(* commitment once performed stays a value that was performed (Grounded),  *)
(* an event keeps the journal it was built with (EventsBacked), and an     *)
(* identity that was applied stays applied (CashInv).                      *)
(***************************************************************************)
EXTENDS CompanyMoney, FiniteSetTheorems, TLAPS

-----------------------------------------------------------------------------
(***************************************************************************)
(* Shapes.                                                                 *)
(***************************************************************************)

SpendShape ==
  /\ scope \in Scopes
  /\ commitments \subseteq [of : scope.commitments, state : {"draft"} \cup CommitmentStates]
  /\ settlements \subseteq [of : scope.settlements, state : {"requested"} \cup SettlementStates]
  /\ budget \in [reserved : Nat, consumed : Nat]
  /\ \A r \in reservations : r.amount \in Nat

BookShape ==
  book = [chart |-> book.chart, periods |-> book.periods, ledger |-> book.ledger]

\* A step keeps what callers may ask for.
LEMMA ScopeKept == [Next]_vars => UNCHANGED scope
BY DEF Next, vars

\* A commitment or a settlement that moves on keeps what it is of.
LEMMA MovedOn ==
  ASSUME NEW S, NEW T, NEW x \in [of : S, state : T], NEW to
  PROVE  [x EXCEPT !.state = to].of = x.of /\ [x EXCEPT !.state = to].state = to
OBVIOUS

LEMMA SpendShapeStep == SpendShape /\ [Next]_vars => SpendShape'
<1> SUFFICES ASSUME SpendShape, [Next]_vars PROVE SpendShape'
  OBVIOUS
<1> USE DEF SpendShape
<1>0. UNCHANGED scope
  BY ScopeKept
<1>1. CASE UNCHANGED spendVars
  BY <1>0, <1>1 DEF spendVars
<1>2. ASSUME NEW c \in scope.commitments, Propose(c) PROVE SpendShape'
  BY <1>0, <1>2 DEF Propose
<1>3. ASSUME NEW c \in commitments, NEW to \in CommitmentStates, CommitmentStep(c, to)
      PROVE  SpendShape'
  <2>1. [c EXCEPT !.state = to] \in
          [of : scope.commitments, state : {"draft"} \cup CommitmentStates]
    OBVIOUS
  <2> QED BY <1>0, <1>3, <2>1 DEF CommitmentStep
<1>4. ASSUME NEW c \in commitments, NEW r \in scope.reservations, Reserve(c, r.id, r.amount)
      PROVE  SpendShape'
  <2>1. c.of.amount \in Nat
    BY ScopesAssumption
  <2>2. r.amount \in Nat
    BY <1>4, <2>1 DEF Reserve
  <2>3. budget' = [budget EXCEPT !.reserved = @ + r.amount]
    BY <1>4 DEF Reserve
  <2>4. budget' \in [reserved : Nat, consumed : Nat]
    BY <2>2, <2>3
  <2> QED BY <1>0, <1>4, <2>2, <2>4 DEF Reserve
<1>5. ASSUME NEW c \in commitments, NEW s \in scope.settlements, RequestSettlement(c, s)
      PROVE  SpendShape'
  BY <1>0, <1>5 DEF RequestSettlement
<1>6. ASSUME NEW r \in reservations, Consume(r) PROVE SpendShape'
  BY <1>0, <1>6 DEF Consume
<1>7. ASSUME NEW r \in reservations, GiveBack(r) PROVE SpendShape'
  <2>1. budget' = [budget EXCEPT !.reserved = @ - r.amount] /\ r.amount <= budget.reserved
    BY <1>7 DEF GiveBack
  <2>2. budget' \in [reserved : Nat, consumed : Nat]
    BY <2>1
  <2> QED BY <1>0, <1>7, <2>2 DEF GiveBack
<1>8. ASSUME NEW s \in settlements, NEW to \in SettlementStates, SettlementStep(s, to)
      PROVE  SpendShape'
  <2>1. [s EXCEPT !.state = to] \in
          [of : scope.settlements, state : {"requested"} \cup SettlementStates]
    OBVIOUS
  <2> QED BY <1>0, <1>8, <2>1 DEF SettlementStep
<1> QED BY <1>1, <1>2, <1>3, <1>4, <1>5, <1>6, <1>7, <1>8 DEF Next, Spend, vars

-----------------------------------------------------------------------------
(***************************************************************************)
(* The budget line.                                                        *)
(***************************************************************************)

LEMMA BudgetStep == SpendShape /\ BudgetHolds /\ [Next]_vars => BudgetHolds'
<1> SUFFICES ASSUME SpendShape, BudgetHolds, [Next]_vars PROVE BudgetHolds'
  OBVIOUS
<1>1. CASE UNCHANGED budget
  BY <1>1 DEF BudgetHolds
<1>2. ASSUME NEW c \in commitments, NEW id, NEW amount, Reserve(c, id, amount)
      PROVE  BudgetHolds'
  <2>1. c.of.amount \in Nat
    BY ScopesAssumption DEF SpendShape
  <2>2. amount \in Nat /\ amount <= Available
    BY <1>2, <2>1 DEF Reserve
  <2>3. budget'.reserved = budget.reserved + amount /\ budget'.consumed = budget.consumed
    BY <1>2 DEF Reserve, SpendShape
  <2>4. budget.reserved \in Nat /\ budget.consumed \in Nat
    BY DEF SpendShape
  <2> QED BY <2>2, <2>3, <2>4, AllocatedAssumption DEF BudgetHolds, Available
<1>3. ASSUME NEW r \in reservations, Consume(r) PROVE BudgetHolds'
  BY <1>3 DEF Consume, BudgetHolds, SpendShape
<1>4. ASSUME NEW r \in reservations, GiveBack(r) PROVE BudgetHolds'
  <2>1. budget'.reserved = budget.reserved - r.amount /\ budget'.consumed = budget.consumed
    BY <1>4 DEF GiveBack, SpendShape
  <2>2. budget.reserved \in Nat /\ budget.consumed \in Nat /\ r.amount \in Nat
    BY DEF SpendShape
  <2> QED BY <2>1, <2>2, AllocatedAssumption DEF BudgetHolds
<1> QED BY <1>1, <1>2, <1>3, <1>4
     DEF Next, Spend, vars, spendVars, Propose, CommitmentStep, RequestSettlement, SettlementStep

LEMMA InitShape == Init => SpendShape /\ BudgetHolds /\ BookShape
BY AllocatedAssumption DEF Init, SpendInit, BookInit, SpendShape, BudgetHolds, BookShape

LEMMA BudgetInductive == Spec => [](SpendShape /\ BudgetHolds)
BY InitShape, SpendShapeStep, BudgetStep, PTL DEF Spec

\* Reserving, consuming and giving back in any order, with any values that were
\* ever returned, never commits more than was allocated (BudgetLine).
THEOREM BudgetCorrect == Spec => []BudgetHolds
BY BudgetInductive, PTL

-----------------------------------------------------------------------------
(***************************************************************************)
(* The books.                                                              *)
(***************************************************************************)

\* Nobody can ask for a settlement before the commitment was performed.
Grounded ==
  \A s \in settlements : \E c \in Recognisable : c.of.id = s.of.commitment

\* An event links its source to the journal of that source.
EventsBacked ==
  \A e \in events : Backed(e.journal) /\ e.journal.id = <<e.type, e.source>>

Logged ==
  /\ log \subseteq events
  /\ \A e, f \in log : <<e.type, e.source>> = <<f.type, f.source>> => e = f

\* No journal is entered twice.
EnteredOnce == \A j, k \in book.ledger : j.id = k.id => j = k

BooksInv ==
  /\ SpendShape /\ BookShape /\ Grounded /\ EnteredOnce
  /\ EventsBacked /\ Logged /\ \A j \in book.ledger : Backed(j)

\* What was performed or paid stays so.
LEMMA ValuesStay ==
  ASSUME [Next]_vars
  PROVE  commitments \subseteq commitments' /\ settlements \subseteq settlements'
BY DEF Next, Spend, vars, spendVars, Propose, CommitmentStep, Reserve, Consume, GiveBack,
   RequestSettlement, SettlementStep

LEMMA BackedStays ==
  ASSUME [Next]_vars, NEW j, Backed(j)
  PROVE  Backed(j)'
<1>1. Recognisable \subseteq Recognisable' /\ Paid \subseteq Paid'
  BY ValuesStay DEF Recognisable, Paid
<1> QED BY <1>1 DEF Backed, RecognitionJournal, SettlementJournal

LEMMA GroundedStep == SpendShape /\ Grounded /\ [Next]_vars => Grounded'
<1> SUFFICES ASSUME SpendShape, Grounded, [Next]_vars, NEW s \in settlements'
             PROVE  \E c \in Recognisable' : c.of.id = s.of.commitment
  BY DEF Grounded
<1>1. Recognisable \subseteq Recognisable'
  BY ValuesStay DEF Recognisable
<1>2. CASE s \in settlements
  BY <1>1, <1>2 DEF Grounded
<1>3. ASSUME NEW c \in commitments, NEW x \in scope.settlements, RequestSettlement(c, x)
      PROVE  s \in settlements \/ \E d \in Recognisable : d.of.id = s.of.commitment
  BY <1>3 DEF RequestSettlement, Payable, Recognisable
<1>4. ASSUME NEW x \in settlements, NEW to \in SettlementStates, SettlementStep(x, to)
      PROVE  \E d \in Recognisable : d.of.id = s.of.commitment
  <2>1. s \in settlements \/ s.of = x.of
    BY <1>4, MovedOn DEF SettlementStep, SpendShape
  <2> QED BY <2>1 DEF Grounded
<1>5. \/ UNCHANGED settlements
      \/ \E c \in commitments, x \in scope.settlements : RequestSettlement(c, x)
      \/ \E x \in settlements, to \in SettlementStates : SettlementStep(x, to)
  BY DEF Next, Spend, vars, spendVars, Propose, CommitmentStep, Reserve, Consume, GiveBack
<1> QED BY <1>1, <1>2, <1>3, <1>4, <1>5

\* The journals that can be posted or linked are backed.
LEMMA JournalsBacked ==
  ASSUME Grounded
  PROVE  /\ \A c \in Recognisable : \A a : Backed(RecognitionJournal(c, a))
         /\ \A s \in Paid : \A a : Backed(SettlementJournal(s, a))
         /\ \A accounts : \A j \in Journals(accounts) : Backed(j)
<1>1. \A c \in Recognisable : \A a : Backed(RecognitionJournal(c, a))
  BY DEF Backed, RecognitionJournal
<1>2. \A s \in Paid : \A a : Backed(SettlementJournal(s, a))
  BY DEF Grounded, Backed, Paid, SettlementJournal
<1> QED BY <1>1, <1>2 DEF Journals

LEMMA EventsStep == Grounded /\ EventsBacked /\ [Next]_vars => EventsBacked'
<1> SUFFICES ASSUME Grounded, EventsBacked, [Next]_vars, NEW e \in events'
             PROVE  Backed(e.journal) /\ e.journal.id = <<e.type, e.source>>
  BY BackedStays DEF EventsBacked
<1>1. CASE e \in events
  BY <1>1 DEF EventsBacked
<1>2. ASSUME NEW c \in Recognisable, NEW id, NEW a, Recognise(c, id, a), e \notin events
      PROVE  Backed(e.journal) /\ e.journal.id = <<e.type, e.source>>
  <2>1. e = [id |-> id, type |-> "commitment", source |-> c.of.id,
             journal |-> RecognitionJournal(c, a)]
    BY <1>2 DEF Recognise, Build
  <2> QED BY <2>1, JournalsBacked DEF RecognitionJournal
<1>3. ASSUME NEW s \in Paid, NEW id, NEW a, Account(s, id, a), e \notin events
      PROVE  Backed(e.journal) /\ e.journal.id = <<e.type, e.source>>
  <2>1. e = [id |-> id, type |-> "settlement", source |-> s.of.id,
             journal |-> SettlementJournal(s, a)]
    BY <1>3 DEF Account, Build
  <2> QED BY <2>1, JournalsBacked DEF SettlementJournal
<1> QED BY <1>1, <1>2, <1>3 DEF Next, Keep, vars, bookVars, AddAccount, OpenPeriod, SoftClose,
     Close, CloseReconciled, ChangePeriod, Post, Append

LEMMA LoggedStep == Logged /\ [Next]_vars => Logged'
<1> SUFFICES ASSUME Logged, [Next]_vars PROVE Logged'
  OBVIOUS
<1>1. ASSUME NEW e \in events, Append(e) PROVE Logged'
  BY <1>1 DEF Append, Logged
<1>2. (log' = log /\ events \subseteq events') \/ \E e \in events : Append(e)
  BY DEF Next, Keep, vars, bookVars, AddAccount, OpenPeriod, SoftClose,
     Close, CloseReconciled, ChangePeriod, Post, Recognise, Account, Build
<1> QED BY <1>1, <1>2 DEF Logged

\* The book changes field by field.
LEMMA BookChanges ==
  ASSUME BookShape, [Next]_vars
  PROVE  \/ UNCHANGED book
         \/ \E code : AddAccount(code)
         \/ \E p : OpenPeriod(p)
         \/ \E p : ChangePeriod(p, "open", "soft_closed")
         \/ \E p : ChangePeriod(p, "soft_closed", "closed")
         \/ \E p : \E j \in Journals(scope.postings) : Post(p, j)
BY DEF Next, Keep, vars, bookVars, SoftClose, Close, CloseReconciled, Append, Recognise,
   Account, Build

LEMMA BookStep == BookShape /\ Grounded /\ (\A j \in book.ledger : Backed(j)) /\ [Next]_vars =>
                    BookShape' /\ (\A j \in book.ledger : Backed(j))'
<1> SUFFICES ASSUME BookShape, Grounded, \A j \in book.ledger : Backed(j), [Next]_vars
             PROVE  BookShape' /\ \A j \in book'.ledger : Backed(j)
  BY BackedStays
<1>1. CASE UNCHANGED book
  BY <1>1 DEF BookShape
<1>2. ASSUME NEW code, AddAccount(code)
      PROVE  BookShape' /\ \A j \in book'.ledger : Backed(j)
  BY <1>2 DEF AddAccount, BookShape
<1>3. ASSUME NEW p, OpenPeriod(p) PROVE BookShape' /\ \A j \in book'.ledger : Backed(j)
  BY <1>3 DEF OpenPeriod, BookShape
<1>4. ASSUME NEW p, NEW from, NEW to, ChangePeriod(p, from, to)
      PROVE  BookShape' /\ \A j \in book'.ledger : Backed(j)
  BY <1>4 DEF ChangePeriod, BookShape
<1>5. ASSUME NEW p, NEW j \in Journals(scope.postings), Post(p, j)
      PROVE  BookShape' /\ \A k \in book'.ledger : Backed(k)
  BY <1>5, JournalsBacked DEF Post, BookShape
<1> QED BY <1>1, <1>2, <1>3, <1>4, <1>5, BookChanges

LEMMA EnteredOnceStep == BookShape /\ EnteredOnce /\ [Next]_vars => EnteredOnce'
<1> SUFFICES ASSUME BookShape, EnteredOnce, [Next]_vars PROVE EnteredOnce'
  OBVIOUS
<1>1. ASSUME NEW p, NEW j, Post(p, j) PROVE EnteredOnce'
  BY <1>1 DEF Post, BookShape, EnteredOnce
<1>2. ASSUME NEW code, AddAccount(code) PROVE book'.ledger = book.ledger
  BY <1>2 DEF AddAccount, BookShape
<1>3. ASSUME NEW p, OpenPeriod(p) PROVE book'.ledger = book.ledger
  BY <1>3 DEF OpenPeriod, BookShape
<1>4. ASSUME NEW p, NEW from, NEW to, ChangePeriod(p, from, to)
      PROVE  book'.ledger = book.ledger
  BY <1>4 DEF ChangePeriod, BookShape
<1> QED BY <1>1, <1>2, <1>3, <1>4, BookChanges DEF EnteredOnce

\* A journal identity stands for one commitment or one settlement, and its amount.
LEMMA OneAmount ==
  ASSUME SpendShape, NEW j, NEW k, Backed(j), Backed(k), j.id = k.id
  PROVE  j.amount = k.amount
<1> USE DEF RecognitionJournal, SettlementJournal
<1>1. ASSUME NEW c \in Recognisable, NEW d \in Recognisable, NEW a, NEW b,
             j = RecognitionJournal(c, a), k = RecognitionJournal(d, b)
      PROVE  j.amount = k.amount
  <2>1. c.of.id = d.of.id
    BY <1>1
  <2>2. c.of \in scope.commitments /\ d.of \in scope.commitments
    BY DEF SpendShape, Recognisable
  <2>3. c.of = d.of
    BY <2>1, <2>2, ScopesAssumption DEF SpendShape
  <2> QED BY <1>1, <2>3
<1>2. ASSUME NEW s \in Paid, NEW t \in Paid, NEW a, NEW b,
             j = SettlementJournal(s, a), k = SettlementJournal(t, b)
      PROVE  j.amount = k.amount
  <2>1. s.of.id = t.of.id
    BY <1>2
  <2>2. s.of \in scope.settlements /\ t.of \in scope.settlements
    BY DEF SpendShape, Paid
  <2>3. s.of = t.of
    BY <2>1, <2>2, ScopesAssumption DEF SpendShape
  <2> QED BY <1>2, <2>3
<1>3. ASSUME NEW c \in Recognisable, NEW s \in Paid, NEW a, NEW b
      PROVE  RecognitionJournal(c, a).id # SettlementJournal(s, b).id
  OBVIOUS
<1> HIDE DEF RecognitionJournal, SettlementJournal
<1> QED BY <1>1, <1>2, <1>3 DEF Backed

\* What the invariants say of the books.
LEMMA BooksSound == BooksInv => BooksBacked
<1> SUFFICES ASSUME BooksInv PROVE BooksBacked
  OBVIOUS
<1>1. \A j \in book.ledger \cup {e.journal : e \in log} : Backed(j)
  BY DEF BooksInv, EventsBacked, Logged
<1>2. \A j \in book.ledger, e \in log : j.id = e.journal.id => j.amount = e.journal.amount
  BY <1>1, OneAmount DEF BooksInv
<1>3. \A e, f \in log : e.journal.id = f.journal.id => e = f
  BY DEF BooksInv, EventsBacked, Logged
<1>4. \A j, k \in book.ledger : j.id = k.id => j = k
  BY DEF BooksInv, EnteredOnce
<1> QED BY <1>1, <1>2, <1>3, <1>4 DEF BooksBacked

LEMMA BooksInductive == Spec => []BooksInv
<1>1. Init => BooksInv
  BY InitShape DEF Init, SpendInit, BookInit, BooksInv, Grounded, EventsBacked, Logged,
     EnteredOnce
<1>2. BooksInv /\ [Next]_vars => BooksInv'
  BY SpendShapeStep, GroundedStep, EventsStep, LoggedStep, BookStep, EnteredOnceStep DEF BooksInv
<1> QED BY <1>1, <1>2, PTL DEF Spec

\* In ledger and log a source stands at most once, for its own amount and under
\* whatever accounts the callers named, and it was performed, or paid for a
\* commitment that was.
THEOREM BooksCorrect == Spec => []BooksBacked
BY BooksInductive, BooksSound, PTL

-----------------------------------------------------------------------------
(***************************************************************************)
(* Periods.                                                                *)
(***************************************************************************)

PeriodStates == {"open", "soft_closed", "closed"}

PeriodsTyped == book.periods \in [DOMAIN book.periods -> PeriodStates]

MovesOn ==
  /\ \A p \in DOMAIN book.periods : Rank[book.periods[p]] <= Rank[book'.periods[p]]
  /\ book'.ledger # book.ledger =>
       \E p \in DOMAIN book.periods : book.periods[p] = "open"

LEMMA PeriodStep ==
  ASSUME BookShape, PeriodsTyped, [Next]_vars
  PROVE  PeriodsTyped' /\ MovesOn
<1> DEFINE B == book.periods
<1>0. B \in [DOMAIN B -> PeriodStates] /\ \A s \in PeriodStates : Rank[s] \in Int
  BY DEF PeriodsTyped, Rank, PeriodStates
<1>1. CASE UNCHANGED book
  BY <1>0, <1>1 DEF PeriodsTyped, MovesOn
<1>2. ASSUME NEW code, AddAccount(code) PROVE PeriodsTyped' /\ MovesOn
  <2>1. book'.periods = B /\ book'.ledger = book.ledger
    BY <1>2 DEF AddAccount, BookShape
  <2> QED BY <1>0, <2>1 DEF PeriodsTyped, MovesOn
<1>3. ASSUME NEW p, OpenPeriod(p) PROVE PeriodsTyped' /\ MovesOn
  <2>1. /\ book'.periods = [q \in DOMAIN B \cup {p} |-> IF q = p THEN "open" ELSE B[q]]
        /\ book'.ledger = book.ledger /\ p \notin DOMAIN B
    BY <1>3 DEF OpenPeriod, BookShape
  <2>2. PeriodsTyped'
    BY <1>0, <2>1 DEF PeriodsTyped, PeriodStates
  <2>3. \A q \in DOMAIN B : book'.periods[q] = B[q]
    BY <2>1
  <2> QED BY <1>0, <2>1, <2>2, <2>3 DEF MovesOn
<1>4. ASSUME NEW p, NEW from, NEW to, ChangePeriod(p, from, to),
             from \in PeriodStates, to \in PeriodStates, Rank[from] <= Rank[to]
      PROVE  PeriodsTyped' /\ MovesOn
  <2>1. /\ book'.periods = [B EXCEPT ![p] = to] /\ p \in DOMAIN B /\ B[p] = from
        /\ book'.ledger = book.ledger
    BY <1>4 DEF ChangePeriod, BookShape
  <2>2. PeriodsTyped'
    BY <1>0, <1>4, <2>1 DEF PeriodsTyped
  <2> QED BY <1>0, <1>4, <2>1, <2>2 DEF MovesOn
<1>5. ASSUME NEW p, NEW j, Post(p, j) PROVE PeriodsTyped' /\ MovesOn
  <2>1. book'.periods = B /\ p \in DOMAIN B /\ B[p] = "open"
    BY <1>5 DEF Post, Takes, BookShape
  <2> QED BY <1>0, <2>1 DEF PeriodsTyped, MovesOn
<1>6. Rank["open"] <= Rank["soft_closed"] /\ Rank["soft_closed"] <= Rank["closed"]
  BY DEF Rank
<1> QED BY <1>1, <1>2, <1>3, <1>4, <1>5, <1>6, BookChanges DEF PeriodStates

LEMMA PeriodsTypedInductive == Spec => []PeriodsTyped
<1>1. Init => PeriodsTyped
  BY DEF Init, BookInit, PeriodsTyped
<1>2. BookShape /\ PeriodsTyped /\ [Next]_vars => PeriodsTyped'
  BY PeriodStep
<1> QED BY <1>1, <1>2, BooksInductive, PTL DEF Spec, BooksInv

\* However closing, posting and reopening attempts interleave, a period only
\* moves on, and nothing is entered while none is open.
THEOREM PeriodsCorrect == Spec => PeriodsMoveOn
<1>1. BookShape /\ PeriodsTyped /\ [Next]_vars => [MovesOn]_vars
  BY PeriodStep
<1>2. Spec => [][MovesOn]_vars
  BY <1>1, PeriodsTypedInductive, BooksInductive, PTL DEF Spec, BooksInv
<1> QED BY <1>2 DEF PeriodsMoveOn, MovesOn

-----------------------------------------------------------------------------
(***************************************************************************)
(* From the bank back to what was paid for.                                *)
(***************************************************************************)

StatementShape ==
  \A id \in DOMAIN statements :
    DOMAIN statements[id] = {"of", "state", "matches", "ledger"}

\* A movement value is never forgotten, and an event never.
LEMMA SourcesStay ==
  ASSUME [Next]_vars
  PROVE  movements \subseteq movements' /\ events \subseteq events'
BY DEF Next, Move, Keep, vars, treasuryVars, bookVars, Request, Approve, Release, Reconcile,
   Import, ReconcileStatement, ReconcileToLedger, AddAccount, OpenPeriod, SoftClose, Close,
   CloseReconciled, ChangePeriod, Post, Append, Recognise, Account, Build

Traced(s) ==
  /\ \A l, k \in s.of.lines : s.ledger[l.id] = s.ledger[k.id] => l = k
  /\ \A l \in s.of.lines : \E e \in events, c \in movements :
       /\ e.id = s.ledger[l.id] /\ e.journal.amount = l.amount
       /\ c.of.id = s.matches[l.id] /\ c.of.ref = e.source

StatementsInv ==
  /\ StatementShape
  /\ \A id \in DOMAIN statements :
       /\ statements[id].of \in Statements
       /\ statements[id].state = "ledger" => Traced(statements[id])

LEMMA StatementsStep == SpendShape /\ StatementsInv /\ [Next]_vars => StatementsInv'
<1> SUFFICES ASSUME SpendShape, StatementsInv, [Next]_vars PROVE StatementsInv'
  OBVIOUS
<1> DEFINE OK(s) == /\ DOMAIN s = {"of", "state", "matches", "ledger"}
                    /\ s.of \in Statements
                    /\ s.state = "ledger" =>
                         /\ \A l, k \in s.of.lines : s.ledger[l.id] = s.ledger[k.id] => l = k
                         /\ \A l \in s.of.lines : \E e \in events', c \in movements' :
                              /\ e.id = s.ledger[l.id] /\ e.journal.amount = l.amount
                              /\ c.of.id = s.matches[l.id] /\ c.of.ref = e.source
<1>1. SUFFICES \A id \in DOMAIN statements' : OK(statements'[id])
  BY DEF StatementsInv, StatementShape, Traced
<1>2. ASSUME NEW id \in DOMAIN statements PROVE OK(statements[id])
  BY SourcesStay DEF StatementsInv, StatementShape, Traced
<1> HIDE DEF OK
<1>3. CASE UNCHANGED statements
  BY <1>2, <1>3
<1>4. ASSUME NEW s \in scope.statements, Import(s)
      PROVE  \A id \in DOMAIN statements' : OK(statements'[id])
  <2> DEFINE new == [of |-> s, state |-> "imported", matches |-> <<>>, ledger |-> <<>>]
  <2>1. OK(new)
    BY ScopesAssumption DEF OK, SpendShape
  <2>2. statements' = [id \in DOMAIN statements \cup {s.id} |->
                         IF id = s.id THEN new ELSE statements[id]]
    BY <1>4 DEF Import
  <2> HIDE DEF new
  <2> QED BY <1>2, <2>1, <2>2
<1>5. ASSUME NEW id \in DOMAIN statements, ReconcileStatement(id)
      PROVE  \A x \in DOMAIN statements' : OK(statements'[x])
  <2>1. PICK f : statements' = [statements EXCEPT ![id].state = "reconciled", ![id].matches = f]
    BY <1>5 DEF ReconcileStatement
  <2> DEFINE new == [statements[id] EXCEPT !.state = "reconciled", !.matches = f]
  <2>2. /\ DOMAIN statements[id] = {"of", "state", "matches", "ledger"}
        /\ statements[id].of \in Statements
    BY <1>2 DEF OK
  <2>3. new.of \in Statements /\ new.state = "reconciled" /\ DOMAIN new = DOMAIN statements[id]
    BY <2>2
  <2>4. statements' = [statements EXCEPT ![id] = new]
    BY <2>1
  <2> HIDE DEF new
  <2>5. OK(new)
    BY <2>2, <2>3 DEF OK
  <2> QED BY <1>2, <2>4, <2>5
<1>6. ASSUME NEW id \in DOMAIN statements, ReconcileToLedger(id)
      PROVE  \A x \in DOMAIN statements' : OK(statements'[x])
  <2> DEFINE old == statements[id]
             lines == old.of.lines
  <2>1. PICK f \in Pairings(lines, {e.id : e \in events}) :
          /\ \A l \in lines : \E e \in events, c \in movements :
               /\ e.id = f[l.id] /\ c.of.id = old.matches[l.id] /\ Traces(e, c, l)
          /\ statements' = [statements EXCEPT ![id].state = "ledger", ![id].ledger = f]
    BY <1>6 DEF ReconcileToLedger
  <2> DEFINE new == [old EXCEPT !.state = "ledger", !.ledger = f]
  <2>2. DOMAIN old = {"of", "state", "matches", "ledger"} /\ old.of \in Statements
    BY <1>2 DEF OK
  <2>5. /\ new.of = old.of /\ new.matches = old.matches /\ new.ledger = f
        /\ DOMAIN new = DOMAIN old
    BY <2>2
  <2>6. statements' = [statements EXCEPT ![id] = new]
    BY <2>1
  <2>3. \A l, k \in lines : f[l.id] = f[k.id] => l = k
    <3>1. \A l, k \in lines : f[l.id] = f[k.id] => l.id = k.id
      BY <2>1 DEF Pairings, Injections
    <3> QED BY <2>2, <3>1, StatementsAssumption
  <2>4. \A l \in lines : \E e \in events', c \in movements' :
          /\ e.id = f[l.id] /\ e.journal.amount = l.amount
          /\ c.of.id = old.matches[l.id] /\ c.of.ref = e.source
    BY <2>1, SourcesStay DEF Traces
  <2> HIDE DEF new
  <2>7. OK(new)
    BY <2>2, <2>3, <2>4, <2>5 DEF OK
  <2> QED BY <1>2, <2>6, <2>7
<1>7. \/ UNCHANGED statements
      \/ \E s \in scope.statements : Import(s)
      \/ \E id \in DOMAIN statements : ReconcileStatement(id) \/ ReconcileToLedger(id)
  BY DEF Next, Move, vars, treasuryVars, Request, Approve, Release, Reconcile
<1> QED BY <1>3, <1>4, <1>5, <1>6, <1>7

\* A line traced to the ledger leads to an event of its own, of the amount of
\* the line, of the source its movement names, and of what was performed or
\* paid (reconcile_to_ledger).
THEOREM LedgerTraceCorrect == Spec => [](LedgerIsTraced /\ MoneyBacked)
<1>1. Init => StatementsInv
  BY DEF Init, TreasuryInit, StatementsInv, StatementShape
<1>2. StatementsInv => LedgerIsTraced
  BY DEF StatementsInv, LedgerIsTraced, Traced
<1>3. StatementsInv /\ EventsBacked => MoneyBacked
  BY DEF StatementsInv, MoneyBacked, Traced, EventsBacked
<1> QED BY <1>1, <1>2, <1>3, StatementsStep, BooksInductive, PTL DEF Spec, BooksInv

-----------------------------------------------------------------------------
(***************************************************************************)
(* What a set of movements, or of the lines of a statement, adds up to.    *)
(* The sum takes the elements in an order nobody knows (FiniteSetsExt), so *)
(* that order has to be shown not to matter.  Induction is over a set of   *)
(* numbers, or of subsets, that is closed under the step.                  *)
(***************************************************************************)

\* Every set of numbers has a least one.
LEMMA LeastNumber ==
  ASSUME NEW T, T \subseteq Nat, T # {}
  PROVE  \E n \in T : \A k \in T : ~ (k < n)
<1> DEFINE R == OpToRel(<, Nat)
<1>1. IsWellFoundedOn(R, Nat)
  BY NatLessThanWellFounded, Zenon
<1>2. \A x, y \in Nat : y < x => <<y, x>> \in R
  BY DEF OpToRel
<1> HIDE DEF R
<1>3. \E x \in T : \A y \in T : ~ (<<y, x>> \in R)
  BY <1>1, WFMin
<1> QED BY <1>2, <1>3

\* A set with 0 and with the successor of all it has is all numbers.
LEMMA NatSetInduction ==
  ASSUME NEW P, 0 \in P, \A n \in Nat : n \in P => n + 1 \in P
  PROVE  Nat \subseteq P
<1> SUFFICES ASSUME Nat \ P # {} PROVE FALSE
  OBVIOUS
<1>1. PICK n \in Nat \ P : \A k \in Nat \ P : ~ (k < n)
  BY LeastNumber
<1>2. n # 0 /\ n - 1 \in Nat
  BY <1>1
<1>3. n - 1 \in P
  BY <1>1, <1>2
<1> QED BY <1>1, <1>2, <1>3

\* Among the subsets of a finite set there is one that no other is inside of.
LEMMA SmallestSet ==
  ASSUME NEW S, IsFiniteSet(S), NEW B, B \subseteq SUBSET S, B # {}
  PROVE  \E m \in B : \A t \in B : t \subseteq m => t = m
<1> DEFINE R == StrictSubsetOrdering(S)
<1>1. IsWellFoundedOn(R, FiniteSubsetsOf(S))
  BY FS_StrictSubsetOrderingWellFounded
<1>2. B \subseteq FiniteSubsetsOf(S)
  BY FS_Subset DEF FiniteSubsetsOf
<1>3. \A t, m \in SUBSET S : t \subseteq m /\ t # m => <<t, m>> \in R
  BY DEF StrictSubsetOrdering
<1> HIDE DEF R
<1>4. \E m \in B : \A t \in B : ~ (<<t, m>> \in R)
  BY <1>1, <1>2, WFMin
<1> QED BY <1>3, <1>4

Any(s) == CHOOSE x \in s : TRUE

\* What a set adds up to, from what its smaller subsets add up to.
Count(f, s) == IF s = {} THEN 0 ELSE Signed(Any(s)) + f[s \ {Any(s)}]

Tally(S, f) == f = [s \in SUBSET S |-> Count(f, s)]

\* The element the sum takes first is one of the set.
LEMMA AnyOfSet == ASSUME NEW s, s # {} PROVE Any(s) \in s
BY DEF Any

\* The recursion of the sum has a solution: one that is right up to a size is
\* made right up to the next.
LEMMA TallyExists ==
  ASSUME NEW S, IsFiniteSet(S)
  PROVE  \E f : Tally(S, f)
<1> DEFINE UpTo(n, f) == /\ f = [s \in SUBSET S |-> f[s]]
                         /\ \A s \in SUBSET S : Cardinality(s) <= n => f[s] = Count(f, s)
           P == {n \in Nat : \E f : UpTo(n, f)}
<1>0. \A s \in SUBSET S : IsFiniteSet(s) /\ Cardinality(s) \in Nat
                            /\ Cardinality(s) <= Cardinality(S)
  BY FS_Subset, FS_CardinalityType
<1>1. 0 \in P
  <2> DEFINE f == [s \in SUBSET S |-> 0]
  <2>1. \A s \in SUBSET S : Cardinality(s) <= 0 => s = {}
    BY <1>0, FS_EmptySet
  <2>2. \A s \in SUBSET S : Cardinality(s) <= 0 => f[s] = Count(f, s)
    BY <2>1 DEF Count
  <2>3. UpTo(0, f)
    BY <2>2
  <2> QED BY <2>3
<1>2. ASSUME NEW n \in Nat, n \in P PROVE n + 1 \in P
  <2>1. PICK f : UpTo(n, f)
    BY <1>2
  <2> DEFINE g == [s \in SUBSET S |-> Count(f, s)]
  <2>2. ASSUME NEW s \in SUBSET S, Cardinality(s) <= n + 1
        PROVE  g[s] = Count(g, s)
    <3>1. CASE s = {}
      BY <3>1 DEF Count
    <3>2. CASE s # {}
      <4> DEFINE t == s \ {Any(s)}
      <4>1. t \in SUBSET S /\ Cardinality(t) = Cardinality(s) - 1
        BY <1>0, <3>2, AnyOfSet, FS_RemoveElement
      <4>2. f[t] = Count(f, t)
        <5>1. Cardinality(s) \in Nat /\ Cardinality(s) <= n + 1
          BY <1>0, <2>2
        <5>2. Cardinality(t) <= n
          BY <4>1, <5>1
        <5> QED BY <2>1, <4>1, <5>2
      <4>3. g[t] = f[t]
        BY <4>1, <4>2
      <4>4. g[s] = Count(f, s)
        OBVIOUS
      <4> HIDE DEF g
      <4> QED BY <3>2, <4>3, <4>4 DEF Count
    <3> QED BY <3>1, <3>2
  <2>3. g = [s \in SUBSET S |-> g[s]]
    OBVIOUS
  <2> HIDE DEF g
  <2>4. UpTo(n + 1, g)
    BY <2>2, <2>3
  <2>5. \E h : UpTo(n + 1, h)
    BY <2>4
  <2> HIDE DEF UpTo
  <2> QED BY <2>5
<1>3. Cardinality(S) \in P
  <2> HIDE DEF P
  <2>1. Nat \subseteq P
    BY <1>1, <1>2, NatSetInduction
  <2> QED BY <2>1, FS_CardinalityType
<1>4. PICK f : UpTo(Cardinality(S), f)
  BY <1>3
<1>5. \A s \in SUBSET S : f[s] = Count(f, s)
  BY <1>0, <1>4
<1>6. f = [s \in SUBSET S |-> Count(f, s)]
  BY <1>4, <1>5
<1> QED BY <1>6 DEF Tally

\* What a set has if its smaller subsets do, all have.
LEMMA SubsetInduction ==
  ASSUME NEW S, IsFiniteSet(S), NEW P,
         \A s \in SUBSET S : (\A t \in SUBSET s : t # s => t \in P) => s \in P
  PROVE  \A s \in SUBSET S : s \in P
<1> DEFINE B == (SUBSET S) \ P
<1>1. ASSUME B # {} PROVE FALSE
  <2>1. B \subseteq SUBSET S
    OBVIOUS
  <2>2. PICK m \in B : \A t \in B : t \subseteq m => t = m
    <3> HIDE DEF B
    <3> QED BY <1>1, <2>1, SmallestSet
  <2>3. \A t \in SUBSET m : t # m => t \in P
    BY <2>2
  <2> QED BY <2>3
<1> QED BY <1>1

\* It has one solution, whatever larger set it is solved on.
LEMMA TallyUnique ==
  ASSUME NEW S, IsFiniteSet(S), NEW f, NEW g, NEW T, S \subseteq T,
         Tally(S, f), Tally(T, g)
  PROVE  \A s \in SUBSET S : f[s] = g[s]
<1> DEFINE P == {s \in SUBSET S : f[s] = g[s]}
<1>1. ASSUME NEW s \in SUBSET S, \A t \in SUBSET s : t # s => t \in P
      PROVE  s \in P
  <2>1. f[s] = Count(f, s) /\ g[s] = Count(g, s)
    BY SUBSET S \subseteq SUBSET T DEF Tally
  <2>2. s # {} => f[s \ {Any(s)}] = g[s \ {Any(s)}]
    BY <1>1, AnyOfSet
  <2> QED BY <2>1, <2>2 DEF Count
<1>2. \A s \in SUBSET S : s \in P
  <2> HIDE DEF P
  <2> QED BY <1>1, SubsetInduction
<1> QED BY <1>2

\* The total is that solution.
LEMMA TotalIsTally ==
  ASSUME NEW S, IsFiniteSet(S)
  PROVE  \E f : Tally(S, f) /\ Total(S) = f[S]
<1> DEFINE f == CHOOSE h : h = [s \in SUBSET S |->
                  IF s = {} THEN 0
                  ELSE Signed(CHOOSE x \in s : TRUE) + h[s \ {CHOOSE x \in s : TRUE}]]
<1>1. Total(S) = f[S]
  BY DEF Total, MapThenSumSet, MapThenFoldSet
<1>2. f = CHOOSE h : Tally(S, h)
  BY DEF Tally, Count, Any
<1>3. Tally(S, f)
  BY <1>2, TallyExists
<1> HIDE DEF f
<1> QED BY <1>1, <1>3

\* A total is of one element and of what is left.
LEMMA TotalCounts ==
  /\ Total({}) = 0
  /\ \A S : IsFiniteSet(S) /\ S # {} =>
       Total(S) = Signed(Any(S)) + Total(S \ {Any(S)})
<1>1. Total({}) = 0
  <2>1. PICK f : Tally({}, f) /\ Total({}) = f[{}]
    BY TotalIsTally, FS_EmptySet
  <2> QED BY <2>1 DEF Tally, Count
<1>2. ASSUME NEW S, IsFiniteSet(S), S # {}
      PROVE  Total(S) = Signed(Any(S)) + Total(S \ {Any(S)})
  <2> DEFINE T == S \ {Any(S)}
  <2>1. IsFiniteSet(T)
    BY <1>2, FS_RemoveElement
  <2>2. PICK f : Tally(S, f) /\ Total(S) = f[S]
    BY <1>2, TotalIsTally
  <2>3. PICK g : Tally(T, g) /\ Total(T) = g[T]
    BY <2>1, TotalIsTally
  <2>4. g[T] = f[T]
    BY <2>1, <2>2, <2>3, TallyUnique
  <2>5. f[S] = Count(f, S)
    BY <2>2 DEF Tally
  <2> QED BY <1>2, <2>2, <2>3, <2>4, <2>5 DEF Count
<1> QED BY <1>1, <1>2

\* The elements have amounts.
Amounts(S) == \A x \in S : Signed(x) \in Int

\* A total of amounts is an amount.
LEMMA TotalIsInt ==
  ASSUME NEW S, IsFiniteSet(S), Amounts(S)
  PROVE  Total(S) \in Int
<1> DEFINE P == {s \in SUBSET S : Total(s) \in Int}
<1>1. ASSUME NEW s \in SUBSET S, \A t \in SUBSET s : t # s => t \in P
      PROVE  s \in P
  <2>1. CASE s = {}
    BY <2>1, TotalCounts
  <2>2. CASE s # {}
    <3>1. IsFiniteSet(s) /\ Any(s) \in s
      BY <2>2, AnyOfSet, FS_Subset
    <3>2. Total(s \ {Any(s)}) \in Int
      BY <1>1, <3>1
    <3>3. Total(s) = Signed(Any(s)) + Total(s \ {Any(s)})
      BY <2>2, <3>1, TotalCounts
    <3>4. Signed(Any(s)) \in Int
      BY <3>1 DEF Amounts
    <3> QED BY <3>2, <3>3, <3>4
  <2> QED BY <2>1, <2>2
<1>2. \A s \in SUBSET S : s \in P
  <2> HIDE DEF P
  <2> QED BY <1>1, SubsetInduction
<1> QED BY <1>2

\* It does not matter which element is taken.
LEMMA TotalTakes ==
  ASSUME NEW S, IsFiniteSet(S), Amounts(S)
  PROVE  \A x \in S : Total(S) = Signed(x) + Total(S \ {x})
<1> DEFINE P == {s \in SUBSET S : \A x \in s : Total(s) = Signed(x) + Total(s \ {x})}
<1>1. ASSUME NEW s \in SUBSET S, \A t \in SUBSET s : t # s => t \in P, NEW x \in s
      PROVE  Total(s) = Signed(x) + Total(s \ {x})
  <2>1. PICK c : c = Any(s)
    OBVIOUS
  <2>2. IsFiniteSet(s) /\ c \in s
    BY <2>1, AnyOfSet, FS_Subset
  <2>3. Total(s) = Signed(c) + Total(s \ {c})
    BY <2>1, <2>2, TotalCounts
  <2>4. CASE c = x
    BY <2>3, <2>4
  <2>5. CASE c # x
    <3>1. PICK r : r = s \ {c, x}
      OBVIOUS
    <3>2. (s \ {c}) \ {x} = r /\ (s \ {x}) \ {c} = r
      BY <3>1
    <3>3. Total(s \ {c}) = Signed(x) + Total(r)
      BY <1>1, <2>2, <2>5, <3>2
    <3>4. Total(s \ {x}) = Signed(c) + Total(r)
      BY <1>1, <2>2, <2>5, <3>2
    <3>5. Total(r) \in Int
      <4>1. r \in SUBSET S
        BY <3>1
      <4>2. IsFiniteSet(r) /\ Amounts(r)
        BY <4>1, FS_Subset DEF Amounts
      <4> QED BY <4>2, TotalIsInt
    <3>6. Signed(x) \in Int /\ Signed(c) \in Int
      BY <2>2 DEF Amounts
    <3> QED BY <2>3, <3>3, <3>4, <3>5, <3>6
  <2> QED BY <2>4, <2>5
<1>2. \A s \in SUBSET S : s \in P
  <2>1. ASSUME NEW s \in SUBSET S, \A t \in SUBSET s : t # s => t \in P
        PROVE  s \in P
    BY <1>1, <2>1
  <2> HIDE DEF P
  <2> QED BY <2>1, SubsetInduction
<1>3. S \in P
  BY <1>2
<1> QED BY <1>3

\* Two sets that correspond one to one in amount and direction add up to the same.
LEMMA TotalMapped ==
  ASSUME NEW S, IsFiniteSet(S), Amounts(S), NEW f,
         \A x, y \in S : f[x] = f[y] => x = y,
         \A x \in S : Signed(f[x]) = Signed(x)
  PROVE  Total({f[x] : x \in S}) = Total(S)
<1> DEFINE Image(s) == {f[x] : x \in s}
           P == {s \in SUBSET S : IsFiniteSet(Image(s)) /\ Total(Image(s)) = Total(s)}
<1>1. ASSUME NEW s \in SUBSET S, \A t \in SUBSET s : t # s => t \in P, s # {}
      PROVE  s \in P
  <2>1. PICK c : c = Any(s)
    OBVIOUS
  <2>2. PICK t : t = s \ {c}
    OBVIOUS
  <2>3. IsFiniteSet(s) /\ c \in s /\ Signed(f[c]) = Signed(c)
    BY <1>1, <2>1, AnyOfSet, FS_Subset
  <2>4. IsFiniteSet(Image(t)) /\ Total(Image(t)) = Total(t)
    BY <1>1, <2>2, <2>3
  <2>5. Image(s) = Image(t) \cup {f[c]} /\ f[c] \notin Image(t)
    BY <2>2, <2>3
  <2>6. Amounts(Image(s))
    BY DEF Amounts
  <2> HIDE DEF Image
  <2>7. IsFiniteSet(Image(s))
    BY <2>4, <2>5, FS_AddElement
  <2>8. Image(s) \ {f[c]} = Image(t)
    BY <2>5
  <2>9. Total(Image(s)) = Signed(f[c]) + Total(Image(t))
    BY <2>5, <2>6, <2>7, <2>8, TotalTakes
  <2>10. Total(s) = Signed(c) + Total(t)
    BY <1>1, <2>1, <2>2, <2>3, TotalCounts
  <2> QED BY <2>3, <2>4, <2>7, <2>9, <2>10
<1>2. {} \in P
  <2>1. Image({}) = {}
    OBVIOUS
  <2> HIDE DEF Image
  <2> QED BY <2>1, FS_EmptySet
<1>3. \A s \in SUBSET S : s \in P
  <2> HIDE DEF P
  <2> QED BY <1>1, <1>2, SubsetInduction
<1> QED BY <1>3

-----------------------------------------------------------------------------
(***************************************************************************)
(* The cash account.                                                       *)
(***************************************************************************)

\* A movement that was reconciled had been released, and what was released is in
\* the balance.
CashInv ==
  /\ movements \subseteq
       [of : Movements, state : {"requested", "approved", "released", "reconciled"}]
  /\ account.balance \in Nat /\ account.applied \subseteq MovementIds
  /\ IsFiniteSet(Released) /\ BalanceExplained
  /\ \A c \in movements : c.state = "reconciled" => c.of \in Released

LEMMA MovementAmounts ==
  /\ \A m \in Movements : m.amount \in Nat /\ Signed(m) \in Int
  /\ \A S : S \subseteq Movements => Amounts(S)
BY MovementsAssumption DEF Signed, Amounts

\* Values that were not released leave the released ones as they are.
LEMMA NotReleased ==
  ASSUME NEW c, c.state # "released", movements' = movements \cup {c}
  PROVE  Released' = Released
BY DEF Released

LEMMA ReleasedMovements == ASSUME CashInv PROVE Released \subseteq Movements
BY DEF CashInv, Released

\* A release moves balance and released movements together, once for an identity.
LEMMA ReleaseStep ==
  ASSUME CashInv, NEW c \in movements, Release(c)
  PROVE  CashInv'
<1>1. PICK m : m = c.of
  OBVIOUS
<1>2. /\ m \in Movements /\ c = [of |-> m, state |-> "approved"]
      /\ account' = [balance |-> account.balance + Signed(m),
                     applied |-> account.applied \cup {m.id}]
      /\ movements' = movements \cup {[of |-> m, state |-> "released"]}
      /\ m.id \notin account.applied /\ (m.inflow \/ account.balance >= m.amount)
  BY <1>1 DEF CashInv, Release, Applied, Covered
<1>3. Released' = Released \cup {m}
  <2>1. PICK d : d = [of |-> m, state |-> "released"]
    OBVIOUS
  <2>2. movements' = movements \cup {d} /\ d.of = m /\ d.state = "released"
    BY <1>2, <2>1
  <2> QED BY <2>2 DEF Released
<1>4. m \notin Released
  BY <1>2 DEF CashInv, BalanceExplained
<1>5. IsFiniteSet(Released') /\ Amounts(Released') /\ m \in Released'
  <2>1. IsFiniteSet(Released \cup {m})
    BY FS_AddElement DEF CashInv
  <2>2. Amounts(Released \cup {m})
    BY <1>2, ReleasedMovements, MovementAmounts
  <2> QED BY <1>3, <2>1, <2>2
<1>6. Total(Released') = Signed(m) + Total(Released)
  <2>1. Released' \ {m} = Released
    BY <1>3, <1>4
  <2>2. PICK R : R = Released'
    OBVIOUS
  <2>3. Total(R) = Signed(m) + Total(R \ {m})
    BY <1>5, <2>2, TotalTakes
  <2> QED BY <2>1, <2>2, <2>3
<1>7. Total(Released) \in Int
  BY ReleasedMovements, MovementAmounts, TotalIsInt DEF CashInv
<1>8. account'.balance = Opening + Total(Released')
  <2>1. account'.balance = account.balance + Signed(m) /\ Signed(m) \in Int
    BY <1>2, MovementAmounts
  <2>2. account.balance = Opening + Total(Released)
    BY DEF CashInv, BalanceExplained
  <2> QED BY <1>6, <1>7, <2>1, <2>2, OpeningAssumption
<1>9. account'.balance \in Nat /\ account'.applied \subseteq MovementIds
  <2>1. m.amount \in Nat /\ m.id \in MovementIds
    BY <1>2, MovementAmounts DEF MovementIds
  <2>2. account.balance \in Nat /\ account.applied \subseteq MovementIds
    BY DEF CashInv
  <2> QED BY <1>2, <2>1, <2>2 DEF Signed
<1>10. /\ account'.applied = {x.id : x \in Released'}
       /\ \A x, y \in Released' : x.id = y.id => x = y
  BY <1>2, <1>3 DEF CashInv, BalanceExplained
<1>11. movements' \subseteq
         [of : Movements, state : {"requested", "approved", "released", "reconciled"}]
  BY <1>2 DEF CashInv
<1>12. \A x \in movements' : x.state = "reconciled" => x.of \in Released'
  BY <1>2, <1>3 DEF CashInv
<1> QED BY <1>5, <1>8, <1>9, <1>10, <1>11, <1>12 DEF CashInv, BalanceExplained

LEMMA CashStep == SpendShape /\ CashInv /\ [Next]_vars => CashInv'
<1> SUFFICES ASSUME SpendShape, CashInv, [Next]_vars PROVE CashInv'
  OBVIOUS
<1>1. ASSUME NEW c, c.state # "released", c \in
               [of : Movements, state : {"requested", "approved", "released", "reconciled"}],
             movements' = movements \cup {c}, UNCHANGED account,
             c.state = "reconciled" => c.of \in Released
      PROVE  CashInv'
  BY <1>1, NotReleased DEF CashInv, BalanceExplained
<1>2. CASE UNCHANGED <<account, movements>>
  BY <1>2 DEF CashInv, BalanceExplained, Released
<1>3. ASSUME NEW m \in scope.movements, Request(m) PROVE CashInv'
  <2>1. m \in Movements
    BY ScopesAssumption DEF SpendShape
  <2>2. PICK c : c = [of |-> m, state |-> "requested"]
    OBVIOUS
  <2> QED BY <1>1, <1>3, <2>1, <2>2 DEF Request
<1>4. ASSUME NEW c \in movements, Approve(c) PROVE CashInv'
  <2>1. c.of \in Movements
    BY DEF CashInv
  <2>2. PICK d : d = [of |-> c.of, state |-> "approved"]
    OBVIOUS
  <2>3. movements' = movements \cup {d}
    BY <1>4, <2>2 DEF Approve, CashInv
  <2> QED BY <1>1, <1>4, <2>1, <2>2, <2>3 DEF Approve
<1>5. ASSUME NEW c \in movements, Reconcile(c) PROVE CashInv'
  <2>1. c.of \in Movements /\ c.of \in Released
    BY <1>5 DEF CashInv, Reconcile, Released
  <2>2. PICK d : d = [of |-> c.of, state |-> "reconciled"]
    OBVIOUS
  <2>3. movements' = movements \cup {d}
    BY <1>5, <2>2 DEF Reconcile, CashInv
  <2> QED BY <1>1, <1>5, <2>1, <2>2, <2>3 DEF Reconcile
<1>6. \/ UNCHANGED <<account, movements>>
      \/ \E m \in scope.movements : Request(m)
      \/ \E c \in movements : Approve(c) \/ Release(c) \/ Reconcile(c)
  BY DEF Next, Move, vars, treasuryVars, Import, ReconcileStatement, ReconcileToLedger
<1> QED BY <1>2, <1>3, <1>4, <1>5, <1>6, ReleaseStep

LEMMA CashInductive == Spec => []CashInv
<1>1. Init => CashInv
  <2> SUFFICES ASSUME Init PROVE CashInv
    OBVIOUS
  <2>1. movements = {} /\ account = [balance |-> Opening, applied |-> {}]
    BY DEF Init, TreasuryInit
  <2>2. Released = {}
    BY <2>1 DEF Released
  <2>3. Total(Released) = 0 /\ IsFiniteSet(Released)
    BY <2>2, TotalCounts, FS_EmptySet
  <2> QED BY <2>1, <2>2, <2>3, OpeningAssumption DEF CashInv, BalanceExplained
<1> QED BY <1>1, CashStep, BudgetInductive, PTL DEF Spec

\* Whatever stale value of a movement is presented again, the balance is the
\* opening one and every released movement once (CashAccount::release).
THEOREM BalanceCorrect == Spec => []BalanceExplained
BY CashInductive, PTL DEF CashInv

-----------------------------------------------------------------------------
(***************************************************************************)
(* Bank statements.                                                        *)
(***************************************************************************)

IdsOf(s) == {l.id : l \in s.lines}

\* What a statement becomes when it is imported, matched, and traced.
Imported(s, new) ==
  /\ s \in Statements /\ s.closing = s.opening + Total(s.lines)
  /\ new = [of |-> s, state |-> "imported", matches |-> <<>>, ledger |-> <<>>]

Matched(old, new) ==
  /\ old.state = "imported" /\ new.state = "reconciled"
  /\ new.of = old.of /\ new.ledger = old.ledger
  /\ new.matches \in Pairings(old.of.lines, MovementIds)
  /\ \A l \in old.of.lines :
       \E c \in movements : c.of.id = new.matches[l.id] /\ Matches(c, l)

Led(old, new) ==
  /\ old.state = "reconciled" /\ new.state = "ledger"
  /\ new.of = old.of /\ new.matches = old.matches
  /\ new.ledger \in Pairings(old.of.lines, {e.id : e \in events})

LEMMA StatementMoves ==
  ASSUME SpendShape, StatementShape, [Next]_vars, NEW id \in DOMAIN statements'
  PROVE  \/ \E s : s.id = id /\ Imported(s, statements'[id])
         \/ /\ id \in DOMAIN statements
            /\ \/ statements'[id] = statements[id]
               \/ Matched(statements[id], statements'[id])
               \/ Led(statements[id], statements'[id])
<1> USE DEF StatementShape
<1>1. ASSUME NEW s \in scope.statements, Import(s)
      PROVE  \/ s.id = id /\ Imported(s, statements'[id])
             \/ id \in DOMAIN statements /\ statements'[id] = statements[id]
  <2>1. PICK new : new = [of |-> s, state |-> "imported", matches |-> <<>>, ledger |-> <<>>]
    OBVIOUS
  <2>2. statements' = [x \in DOMAIN statements \cup {s.id} |->
                         IF x = s.id THEN new ELSE statements[x]]
    BY <1>1, <2>1 DEF Import
  <2>3. Imported(s, new)
    BY <1>1, <2>1, ScopesAssumption DEF Import, Imported, SpendShape
  <2> QED BY <2>2, <2>3
<1>2. ASSUME NEW x \in DOMAIN statements, ReconcileStatement(x)
      PROVE  /\ id \in DOMAIN statements
             /\ statements'[id] = statements[id] \/ Matched(statements[id], statements'[id])
  <2>1. PICK old : old = statements[x]
    OBVIOUS
  <2>2. PICK f \in Pairings(old.of.lines, MovementIds) :
          /\ \A l \in old.of.lines : \E c \in movements : c.of.id = f[l.id] /\ Matches(c, l)
          /\ statements' = [statements EXCEPT ![x].state = "reconciled", ![x].matches = f]
    BY <1>2, <2>1 DEF ReconcileStatement
  <2>3. PICK new : new = [old EXCEPT !.state = "reconciled", !.matches = f]
    OBVIOUS
  <2>4. statements' = [statements EXCEPT ![x] = new]
    BY <2>1, <2>2, <2>3
  <2>5. /\ new.state = "reconciled" /\ new.matches = f
        /\ new.of = old.of /\ new.ledger = old.ledger
    BY <2>1, <2>3
  <2>6. old.state = "imported"
    BY <1>2, <2>1 DEF ReconcileStatement
  <2>7. Matched(old, new)
    BY <2>2, <2>5, <2>6 DEF Matched
  <2> QED BY <2>1, <2>4, <2>7
<1>3. ASSUME NEW x \in DOMAIN statements, ReconcileToLedger(x)
      PROVE  /\ id \in DOMAIN statements
             /\ statements'[id] = statements[id] \/ Led(statements[id], statements'[id])
  <2>1. PICK old : old = statements[x]
    OBVIOUS
  <2>2. PICK f \in Pairings(old.of.lines, {e.id : e \in events}) :
          statements' = [statements EXCEPT ![x].state = "ledger", ![x].ledger = f]
    BY <1>3, <2>1 DEF ReconcileToLedger
  <2>3. PICK new : new = [old EXCEPT !.state = "ledger", !.ledger = f]
    OBVIOUS
  <2>4. statements' = [statements EXCEPT ![x] = new]
    BY <2>1, <2>2, <2>3
  <2>5. /\ new.state = "ledger" /\ new.ledger = f
        /\ new.of = old.of /\ new.matches = old.matches
    BY <2>1, <2>3
  <2>6. old.state = "reconciled"
    BY <1>3, <2>1 DEF ReconcileToLedger
  <2>7. Led(old, new)
    BY <2>2, <2>5, <2>6 DEF Led
  <2> QED BY <2>1, <2>4, <2>7
<1>4. \/ UNCHANGED statements
      \/ \E s \in scope.statements : Import(s)
      \/ \E x \in DOMAIN statements : ReconcileStatement(x) \/ ReconcileToLedger(x)
  BY DEF Next, Move, vars, treasuryVars, Request, Approve, Release, Reconcile
<1> QED BY <1>1, <1>2, <1>3, <1>4

\* The movements a statement is matched with, among the released ones.
MatchedOf(s, released) ==
  {m \in released : \E l \in s.of.lines : m.id = s.matches[l.id]}

\* Its lines are movements of `released', in amount and direction, and they are
\* the difference between its balances.
CashOf(s, released) ==
  /\ \A l \in s.of.lines : \E m \in released :
       m.id = s.matches[l.id] /\ Signed(m) = Signed(l)
  /\ s.of.closing - s.of.opening = Total(MatchedOf(s, released))

StatementSound(s, released, ids) ==
  /\ s.of \in Statements /\ s.of.closing = s.of.opening + Total(s.of.lines)
  /\ \/ s.state = "imported" /\ s.matches = <<>> /\ s.ledger = <<>>
     \/ /\ s.matches \in [IdsOf(s.of) -> MovementIds] /\ CashOf(s, released)
        /\ \/ s.state = "reconciled" /\ s.ledger = <<>>
           \/ s.state = "ledger" /\ s.ledger \in [IdsOf(s.of) -> ids]

StatementsSound ==
  /\ DOMAIN statements \subseteq StatementIds
  /\ \A id \in DOMAIN statements :
       StatementSound(statements[id], Released, {e.id : e \in events})

\* Cash that moves later does not disturb a statement: nothing else can be
\* released under the id of a movement that was.
LEMMA CashOfStays ==
  ASSUME NEW s, NEW R, NEW T, R \subseteq T,
         \A m, n \in T : m.id = n.id => m = n, CashOf(s, R)
  PROVE  CashOf(s, T)
<1>1. MatchedOf(s, T) = MatchedOf(s, R)
  BY DEF MatchedOf, CashOf
<1> QED BY <1>1 DEF CashOf

\* A statement whose lines are matched one to one with released movements of
\* their amounts adds up to what those movements add up to.
LEMMA MatchedIsCash ==
  ASSUME CashInv, NEW old, NEW new, Matched(old, new), old.of \in Statements,
         old.of.closing = old.of.opening + Total(old.of.lines)
  PROVE  CashOf(new, Released)
<1>1. PICK L : L = old.of.lines
  OBVIOUS
<1>2. PICK g : g = new.matches
  OBVIOUS
<1>3. new.of = old.of /\ g \in Pairings(L, MovementIds)
  BY <1>1, <1>2 DEF Matched
<1>4. \A l \in L : \E m \in Released : m.id = g[l.id] /\ Signed(m) = Signed(l)
  <2>1. ASSUME NEW l \in L
        PROVE  \E m \in Released : m.id = g[l.id] /\ Signed(m) = Signed(l)
    <3>1. PICK c \in movements : c.of.id = g[l.id] /\ Matches(c, l)
      BY <1>1, <1>2 DEF Matched
    <3>2. c.of \in Released
      BY <3>1 DEF Matches, CashInv, Released
    <3>3. Signed(c.of) = Signed(l)
      BY <3>1 DEF Matches, Signed
    <3> QED BY <3>1, <3>2, <3>3
  <2> QED BY <2>1
<1>5. PICK f : f = [l \in L |-> CHOOSE m \in Released : m.id = g[l.id] /\ Signed(m) = Signed(l)]
  OBVIOUS
<1>6. \A l \in L : f[l] \in Released /\ f[l].id = g[l.id] /\ Signed(f[l]) = Signed(l)
  BY <1>4, <1>5
<1>7. \A l, k \in L : f[l] = f[k] => l = k
  <2>1. ASSUME NEW l \in L, NEW k \in L, f[l] = f[k] PROVE l = k
    <3>1. g[l.id] = g[k.id]
      BY <1>6, <2>1
    <3>2. l.id = k.id
      BY <1>3, <3>1 DEF Pairings, Injections
    <3> QED BY <1>1, <3>2, StatementsAssumption
  <2> QED BY <2>1
<1>8. MatchedOf(new, Released) = {f[l] : l \in L}
  <2>1. new.of.lines = L /\ new.matches = g
    BY <1>1, <1>2, <1>3
  <2>2. \A m, n \in Released : m.id = n.id => m = n
    BY DEF CashInv, BalanceExplained
  <2>3. ASSUME NEW m \in Released, NEW l \in L, m.id = g[l.id] PROVE m = f[l]
    BY <1>6, <2>2, <2>3
  <2> QED BY <1>6, <2>1, <2>3 DEF MatchedOf
<1>9. IsFiniteSet(L) /\ Amounts(L)
  <2>1. \A l \in L : Signed(l) \in Int
    BY <1>6, ReleasedMovements, MovementAmounts
  <2> QED BY <1>1, <2>1, StatementsAssumption DEF Amounts
<1>10. Total({f[l] : l \in L}) = Total(L) /\ Total(L) \in Int
  BY <1>6, <1>7, <1>9, TotalMapped, TotalIsInt
<1>11. old.of.closing - old.of.opening = Total(L)
  <2>1. old.of.opening \in Int
    BY StatementsAssumption
  <2> QED BY <1>1, <1>10, <2>1
<1> QED BY <1>1, <1>2, <1>3, <1>4, <1>8, <1>10, <1>11 DEF CashOf

LEMMA ReleasedStays ==
  ASSUME SpendShape, CashInv, [Next]_vars
  PROVE  /\ Released \subseteq Released'
         /\ \A m, n \in Released' : m.id = n.id => m = n
         /\ {e.id : e \in events} \subseteq {e.id : e \in events'}
<1>1. movements \subseteq movements' /\ events \subseteq events'
  BY SourcesStay
<1>2. CashInv'
  BY CashStep
<1> QED BY <1>1, <1>2 DEF Released, CashInv, BalanceExplained

LEMMA StatementSoundStays ==
  ASSUME NEW s, NEW R, NEW T, R \subseteq T, \A m, n \in T : m.id = n.id => m = n,
         NEW ids, NEW more, ids \subseteq more, StatementSound(s, R, ids)
  PROVE  StatementSound(s, T, more)
<1>1. CashOf(s, R) => CashOf(s, T)
  BY CashOfStays
<1>2. [IdsOf(s.of) -> ids] \subseteq [IdsOf(s.of) -> more]
  OBVIOUS
<1> QED BY <1>1, <1>2 DEF StatementSound

LEMMA StatementsSoundStep ==
  SpendShape /\ StatementShape /\ CashInv /\ StatementsSound /\ [Next]_vars => StatementsSound'
<1> SUFFICES ASSUME SpendShape, StatementShape, CashInv, StatementsSound, [Next]_vars
             PROVE  StatementsSound'
  OBVIOUS
<1>1. PICK R, T, ids, more :
        R = Released /\ T = Released' /\ ids = {e.id : e \in events}
          /\ more = {e.id : e \in events'}
  OBVIOUS
<1>2. R \subseteq T /\ (\A m, n \in T : m.id = n.id => m = n) /\ ids \subseteq more
  BY <1>1, ReleasedStays
<1>3. \A id \in DOMAIN statements : StatementSound(statements[id], R, ids)
  BY <1>1 DEF StatementsSound
<1>4. ASSUME NEW id \in DOMAIN statements'
      PROVE  id \in StatementIds /\ StatementSound(statements'[id], T, more)
  <2>1. PICK new : new = statements'[id]
    OBVIOUS
  <2>2. ASSUME NEW s, s.id = id, Imported(s, new)
        PROVE  id \in StatementIds /\ StatementSound(new, T, more)
    BY <2>2 DEF Imported, StatementSound, StatementIds
  <2>3. ASSUME id \in DOMAIN statements
        PROVE  id \in StatementIds /\ StatementSound(statements[id], T, more)
    <3>1. StatementSound(statements[id], R, ids) /\ id \in StatementIds
      BY <1>3, <2>3 DEF StatementsSound
    <3> QED BY <1>2, <3>1, StatementSoundStays
  <2>4. ASSUME id \in DOMAIN statements, NEW old, old = statements[id], Matched(old, new)
        PROVE  StatementSound(new, T, more)
    <3>1. /\ old.of \in Statements /\ old.of.closing = old.of.opening + Total(old.of.lines)
          /\ old.state = "imported" /\ old.ledger = <<>>
      BY <1>3, <2>4 DEF StatementSound, Matched
    <3>2. CashOf(new, R)
      BY <1>1, <2>4, <3>1, MatchedIsCash
    <3>3. new.matches \in [IdsOf(new.of) -> MovementIds]
      BY <2>4 DEF Matched, Pairings, Injections, IdsOf
    <3>4. new.of = old.of /\ new.state = "reconciled" /\ new.ledger = old.ledger
      BY <2>4 DEF Matched
    <3>5. CashOf(new, T)
      BY <1>2, <3>2, CashOfStays
    <3> QED BY <3>1, <3>3, <3>4, <3>5 DEF StatementSound
  <2>5. ASSUME id \in DOMAIN statements, NEW old, old = statements[id], Led(old, new)
        PROVE  StatementSound(new, T, more)
    <3>1. StatementSound(old, T, more) /\ old.state = "reconciled"
      BY <2>3, <2>5 DEF Led
    <3>2. /\ old.of \in Statements /\ old.of.closing = old.of.opening + Total(old.of.lines)
          /\ old.matches \in [IdsOf(old.of) -> MovementIds] /\ CashOf(old, T)
      BY <3>1 DEF StatementSound
    <3>3. new.of = old.of /\ new.state = "ledger" /\ new.matches = old.matches
      BY <2>5 DEF Led
    <3>4. new.ledger \in [IdsOf(new.of) -> more]
      BY <1>1, <1>2, <2>5 DEF Led, Pairings, Injections, IdsOf
    <3>5. CashOf(new, T)
      BY <3>2, <3>3 DEF CashOf, MatchedOf
    <3> QED BY <3>2, <3>3, <3>4, <3>5 DEF StatementSound
  <2> QED BY <2>1, <2>2, <2>3, <2>4, <2>5, StatementMoves
<1> QED BY <1>1, <1>4 DEF StatementsSound, StatementIds

LEMMA StatementsSoundInductive == Spec => [](SpendShape /\ StatementShape /\ CashInv /\ StatementsSound)
<1>1. Init => StatementsInv /\ StatementsSound
  BY DEF Init, TreasuryInit, StatementsInv, StatementShape, StatementsSound
<1>2. StatementsInv => StatementShape
  BY DEF StatementsInv
<1> QED BY <1>1, <1>2, BudgetInductive, CashInductive, StatementsStep, StatementsSoundStep, PTL
        DEF Spec

\* Every entry has its accounts, and every settlement its commitment.
LedgerTyped ==
  \A j \in book.ledger : j.amount > 0 /\ {j.debit, j.credit} \subseteq book.chart

LEMMA LedgerTypedStep == BookShape /\ LedgerTyped /\ [Next]_vars => LedgerTyped'
<1> SUFFICES ASSUME BookShape, LedgerTyped, [Next]_vars PROVE LedgerTyped'
  OBVIOUS
<1>1. ASSUME NEW p, NEW from, NEW to, ChangePeriod(p, from, to)
      PROVE  book'.ledger = book.ledger /\ book'.chart = book.chart
  BY <1>1 DEF ChangePeriod, BookShape
<1>2. ASSUME NEW p, OpenPeriod(p)
      PROVE  book'.ledger = book.ledger /\ book'.chart = book.chart
  BY <1>2 DEF OpenPeriod, BookShape
<1>3. ASSUME NEW code, AddAccount(code)
      PROVE  book'.ledger = book.ledger /\ book.chart \subseteq book'.chart
  BY <1>3 DEF AddAccount, BookShape
<1>4. ASSUME NEW p, NEW j, Post(p, j) PROVE LedgerTyped'
  <2>1. book'.ledger = book.ledger \cup {j} /\ book'.chart = book.chart
    BY <1>4 DEF Post, BookShape
  <2> QED BY <1>4, <2>1 DEF Post, LedgerTyped
<1> QED BY <1>1, <1>2, <1>3, <1>4, BookChanges DEF LedgerTyped

SettlementsTyped ==
  \A s \in settlements : \E c \in commitments :
    c.of.id = s.of.commitment /\ s.of.amount \in 1..c.of.amount

LEMMA SettlementsTypedStep == SpendShape /\ SettlementsTyped /\ [Next]_vars => SettlementsTyped'
<1> SUFFICES ASSUME SpendShape, SettlementsTyped, [Next]_vars, NEW s \in settlements'
             PROVE  \E c \in commitments' :
                      c.of.id = s.of.commitment /\ s.of.amount \in 1..c.of.amount
  BY DEF SettlementsTyped
<1>1. commitments \subseteq commitments'
  BY ValuesStay
<1>2. CASE s \in settlements
  BY <1>1, <1>2 DEF SettlementsTyped
<1>3. ASSUME NEW c \in commitments, NEW x \in scope.settlements, RequestSettlement(c, x),
             s \notin settlements
      PROVE  c.of.id = s.of.commitment /\ s.of.amount \in 1..c.of.amount
  <2>1. s = [of |-> x, state |-> "requested"]
    BY <1>3 DEF RequestSettlement
  <2> QED BY <1>3, <2>1 DEF RequestSettlement
<1>4. ASSUME NEW x \in settlements, NEW to \in SettlementStates, SettlementStep(x, to),
             s \notin settlements
      PROVE  s.of = x.of
  BY <1>4, MovedOn DEF SettlementStep, SpendShape
<1>5. \/ UNCHANGED settlements
      \/ \E c \in commitments, x \in scope.settlements : RequestSettlement(c, x)
      \/ \E x \in settlements, to \in SettlementStates : SettlementStep(x, to)
  BY DEF Next, Spend, vars, spendVars, Propose, CommitmentStep, Reserve, Consume, GiveBack
<1>6. ASSUME NEW x \in settlements, s.of = x.of
      PROVE  \E c \in commitments' :
               c.of.id = s.of.commitment /\ s.of.amount \in 1..c.of.amount
  BY <1>1, <1>6 DEF SettlementsTyped
<1> QED BY <1>1, <1>2, <1>3, <1>4, <1>5, <1>6

\* The values of the books, of the spending and of the treasury are the ones the
\* packages build.
THEOREM MoneyTypeCorrect == Spec => []TypeOK
<1>1. Init => LedgerTyped /\ SettlementsTyped
  BY DEF Init, BookInit, SpendInit, LedgerTyped, SettlementsTyped
<1>2. Spec => [](LedgerTyped /\ SettlementsTyped)
  BY <1>1, LedgerTypedStep, SettlementsTypedStep, BooksInductive, PTL DEF Spec, BooksInv
<1>3. PeriodsTyped /\ LedgerTyped /\ Logged => BookTypeOK
  BY DEF PeriodsTyped, PeriodStates, LedgerTyped, Logged, BookTypeOK
<1>4. SpendShape /\ SettlementsTyped => SpendTypeOK
  BY DEF SpendShape, SettlementsTyped, SpendTypeOK
<1>5. CashInv /\ StatementsSound => TreasuryTypeOK
  <2> SUFFICES ASSUME CashInv, StatementsSound PROVE TreasuryTypeOK
    OBVIOUS
  <2>1. ASSUME NEW id \in DOMAIN statements
        PROVE  LET s == statements[id]
                   Lines == {l.id : l \in s.of.lines}
               IN  CASE s.state = "imported" -> s.matches = <<>> /\ s.ledger = <<>>
                     [] s.state = "reconciled" ->
                          s.matches \in [Lines -> MovementIds] /\ s.ledger = <<>>
                     [] s.state = "ledger" ->
                          /\ s.matches \in [Lines -> MovementIds]
                          /\ s.ledger \in [Lines -> {e.id : e \in events}]
    <3>1. StatementSound(statements[id], Released, {e.id : e \in events})
      BY DEF StatementsSound
    <3> QED BY <3>1 DEF StatementSound, IdsOf
  <2> QED BY <2>1 DEF CashInv, StatementsSound, TreasuryTypeOK
<1> QED BY <1>2, <1>3, <1>4, <1>5, PeriodsTypedInductive, BooksInductive,
           StatementsSoundInductive, PTL DEF TypeOK, BooksInv

\* A reconciled statement is cash that moved, line by line and in sum, however
\* much moves after it; one that is traced leads on to the events of what was
\* performed or paid (BankStatement::reconcile, reconcile_to_ledger).
THEOREM StatementsCorrect == Spec => []StatementsBacked
<1>1. StatementsSound => StatementIsCash
  <2> SUFFICES ASSUME StatementsSound, NEW id \in DOMAIN statements,
                      statements[id].state # "imported"
               PROVE  CashOf(statements[id], Released)
    BY DEF StatementIsCash, CashOf, MatchedOf
  <2>1. StatementSound(statements[id], Released, {e.id : e \in events})
    BY DEF StatementsSound
  <2> QED BY <2>1 DEF StatementSound
<1> QED BY <1>1, MoneyTypeCorrect, LedgerTraceCorrect, StatementsSoundInductive, PTL
        DEF StatementsBacked

=============================================================================
