-------------------------- MODULE CompanyCommandProofs --------------------------
(***************************************************************************)
(* Proofs about the command pipeline, for any number of requests,          *)
(* aggregates, keys, actors and payloads.  The history of an aggregate     *)
(* stays sound because of two facts together: a transaction only ever      *)
(* builds on a revision that was really stored (Grounded, Admitted), and   *)
(* revisions are dense and unique, so that building on one that is no      *)
(* longer the latest runs into the primary key (Dense, NoFork).            *)
(***************************************************************************)
EXTENDS CompanyCommand, TLAPS

\* What a request read is still on file, and of its own aggregate.
Grounded ==
  \A t \in Requests :
    \/ seen[t] = NoRow
    \/ phase[t] # "idle" /\ seen[t] \in rows /\ seen[t].agg = cmd[t].agg

\* The guards a transition passes.
MayFollow(c, s) ==
  /\ s # NoRow
  /\ c.type \in Transitions
  /\ Guard(Family(c), c.type, s.state)
  /\ Owns(c, s)

\* A request whose transaction is pending has passed the guards.
Admitted ==
  \A t \in Requests :
    phase[t] \in {"commit", "orphaned"} =>
      IF cmd[t].type = "create"
        THEN ProtectsImported(Family(cmd[t])) => cmd[t].agg \notin Imported
        ELSE MayFollow(cmd[t], seen[t])

\* Below every revision lie all the smaller ones.
Dense ==
  \A r \in rows : \A n \in 1..r.rev : \E s \in rows : s.agg = r.agg /\ s.rev = n

IInv ==
  TypeOK /\ Grounded /\ Admitted /\ NoFork /\ Dense /\ LegalHistory

-----------------------------------------------------------------------------
(***************************************************************************)
(* The lifecycle tables.                                                   *)
(***************************************************************************)

\* Every command leaves its aggregate in a state of the lifecycle.
LEMMA NextStateType ==
  ASSUME NEW f \in Families, NEW type \in CommandTypes,
         NEW s, type \in Transitions => s \in States, NEW yes \in BOOLEAN
  PROVE  NextState(f, type, s, yes) \in States
BY DEF NextState, ExpenseNext, ContractNext, PaymentNext, InvoiceNext, RevenueNext,
       SupplierNext, MarketingNext, FundNext, LoopNext, Families, CommandTypes,
       Transitions, States

\* Every family creates its records in an initial state.
LEMMA CreateIsInitial ==
  ASSUME NEW f \in Families, NEW yes \in BOOLEAN
  PROVE  NextState(f, "create", Absent, yes) \in InitialStates(f)
BY DEF NextState, ExpenseNext, ContractNext, PaymentNext, InvoiceNext, RevenueNext,
       SupplierNext, MarketingNext, FundNext, InitialStates, Families

\* A transition the guards admit is one the documents promise.
LEMMA TransitionIsPromised ==
  ASSUME NEW f \in Families, NEW type \in Transitions, NEW s \in States,
         NEW yes \in BOOLEAN, Guard(f, type, s)
  PROVE  Lifecycle(f, type, s, NextState(f, type, s, yes))
<1>1. CASE f = "expense"
  BY <1>1 DEF Guard, ExpenseGuard, LoopGuard, FundGuard, NextState, ExpenseNext,
     LoopNext, Lifecycle, Transitions, States
<1>2. CASE f = "contract"
  BY <1>2 DEF Guard, ContractGuard, LoopGuard, FundGuard, NextState, ContractNext,
     LoopNext, Lifecycle, Transitions, States
<1>3. CASE f = "payment"
  BY <1>3 DEF Guard, PaymentGuard, LoopGuard, FundGuard, NextState, PaymentNext,
     LoopNext, Lifecycle, Transitions, States
<1>4. CASE f = "invoice"
  BY <1>4 DEF Guard, InvoiceGuard, FundGuard, NextState, InvoiceNext, Lifecycle
<1>5. CASE f = "revenue"
  BY <1>5 DEF Guard, RevenueGuard, FundGuard, NextState, RevenueNext, Lifecycle
<1>6. CASE f = "supplier"
  BY <1>6 DEF Guard, SupplierGuard, FundGuard, NextState, SupplierNext, Lifecycle
<1>7. CASE f = "marketing"
  BY <1>7 DEF Guard, MarketingGuard, FundGuard, NextState, MarketingNext, Lifecycle
<1>8. CASE f \in {"plan", "dispatch"}
  BY <1>8 DEF Guard, FundGuard, NextState, FundNext, Lifecycle
<1>. QED BY <1>1, <1>2, <1>3, <1>4, <1>5, <1>6, <1>7, <1>8 DEF Families

-----------------------------------------------------------------------------
(***************************************************************************)
(* The revision a pending transaction carries.                             *)
(***************************************************************************)

\* A revision that may stand in the history above the stored ones.
WellFounded(r) ==
  \/ /\ r.rev = 1 /\ r.event.type = "create"
     /\ r.state \in InitialStates(FamilyOf[r.agg])
     /\ ProtectsImported(FamilyOf[r.agg]) => r.agg \notin Imported
  \/ \E p \in rows : Succeeds(r, p)

\* The first revision of a record is typed and in an initial state.
LEMMA FirstRowFacts ==
  ASSUME NEW c \in Commands, c.type = "create"
  PROVE  /\ FirstRow(c) \in Rows
         /\ FirstRow(c).agg = c.agg /\ FirstRow(c).event = EventOf(c)
         /\ FirstRow(c).rev = 1
         /\ FirstRow(c).state \in InitialStates(FamilyOf[c.agg])
<1>1. FamilyOf[c.agg] \in Families
  BY FamilyAssumption DEF Commands
<1>2. /\ NextState(FamilyOf[c.agg], "create", Absent, Yes(c)) \in States
      /\ NextState(FamilyOf[c.agg], "create", Absent, Yes(c))
           \in InitialStates(FamilyOf[c.agg])
  <2>1. Yes(c) \in BOOLEAN
    BY DEF Yes
  <2>2. "create" \in CommandTypes /\ "create" \notin Transitions
    BY DEF CommandTypes, Transitions
  <2>. QED BY <1>1, <2>1, <2>2, CreateIsInitial, NextStateType
<1>3. EventOf(c) \in Events
  BY <1>1 DEF EventOf, Events, Commands
<1>. QED BY <1>1, <1>2, <1>3 DEF FirstRow, OwnerGiven, Rows, Commands

\* A transition over a stored revision it may follow yields a typed revision
\* that succeeds it.
LEMMA SuccessorRowFacts ==
  ASSUME NEW c \in Commands, NEW p \in Rows, p.agg = c.agg, MayFollow(c, p)
  PROVE  /\ SuccessorRow(c, p) \in Rows
         /\ SuccessorRow(c, p).agg = c.agg
         /\ SuccessorRow(c, p).event = EventOf(c)
         /\ Succeeds(SuccessorRow(c, p), p)
<1>. DEFINE r == SuccessorRow(c, p)
<1>1. FamilyOf[c.agg] \in Families
  BY FamilyAssumption DEF Commands
<1>2. /\ c.type \in Transitions /\ p.state \in States
      /\ Guard(FamilyOf[c.agg], c.type, p.state)
  BY DEF MayFollow, Family, Rows
<1>3. /\ NextState(FamilyOf[c.agg], c.type, p.state, Yes(c)) \in States
      /\ Lifecycle(FamilyOf[c.agg], c.type, p.state,
                   NextState(FamilyOf[c.agg], c.type, p.state, Yes(c)))
  <2>1. Yes(c) \in BOOLEAN
    BY DEF Yes
  <2>. QED BY <1>1, <1>2, <2>1, NextStateType, TransitionIsPromised DEF CommandTypes
<1>4. EventOf(c) \in Events /\ EventOf(c).type = c.type
  BY <1>1 DEF EventOf, Events, Commands
<1>5. r \in Rows
  BY <1>3, <1>4 DEF SuccessorRow, Rows, Commands
<1>6. Succeeds(r, p)
  BY <1>3, <1>4 DEF SuccessorRow, Succeeds, MayFollow, Owns, OwnerBound, Commands, Rows
<1>. QED BY <1>5, <1>6 DEF SuccessorRow

\* What a pending transaction will try to insert.
LEMMA PendingRow ==
  ASSUME TypeOK, Grounded, Admitted,
         NEW t \in Requests, phase[t] \in {"commit", "orphaned"}
  PROVE  LET r == NextRow(cmd[t], seen[t])
         IN  /\ r \in Rows /\ r.agg = cmd[t].agg /\ r.event = EventOf(cmd[t])
             /\ WellFounded(r)
<1>1. cmd[t] \in Commands
  BY DEF TypeOK
<1>2. CASE cmd[t].type = "create"
  <2>1. NextRow(cmd[t], seen[t]) = FirstRow(cmd[t])
    BY <1>2 DEF NextRow
  <2>2. ProtectsImported(FamilyOf[cmd[t].agg]) => cmd[t].agg \notin Imported
    BY <1>2 DEF Admitted, Family
  <2>3. FirstRow(cmd[t]).event.type = "create"
    BY <1>2 DEF FirstRow, EventOf
  <2>. QED BY <1>1, <1>2, <2>1, <2>2, <2>3, FirstRowFacts DEF WellFounded
<1>3. CASE cmd[t].type # "create"
  <2>1. NextRow(cmd[t], seen[t]) = SuccessorRow(cmd[t], seen[t])
    BY <1>3 DEF NextRow
  <2>2. MayFollow(cmd[t], seen[t])
    BY <1>3 DEF Admitted
  <2>3. seen[t] \in rows /\ seen[t] \in Rows /\ seen[t].agg = cmd[t].agg
    BY <2>2 DEF Grounded, MayFollow, TypeOK
  <2>. QED BY <1>1, <2>1, <2>2, <2>3, SuccessorRowFacts DEF WellFounded
<1>. QED BY <1>2, <1>3

\* Inserting a well-founded revision keeps the history unique, dense and legal:
\* the primary key turns away the ones that come too late.
LEMMA InsertKeepsHistory ==
  ASSUME rows \subseteq Rows, NoFork, Dense, LegalHistory,
         NEW r \in Rows, WellFounded(r), rows' = InsertRow(r)
  PROVE  (rows \subseteq Rows)' /\ NoFork' /\ Dense' /\ LegalHistory'
<1>1. CASE \E s \in rows : s.agg = r.agg /\ (s.rev = r.rev \/ s.event = r.event)
  <2>1. rows' = rows
    BY <1>1 DEF InsertRow
  <2>. QED BY <2>1 DEF NoFork, Dense, LegalHistory
<1>2. CASE ~ \E s \in rows : s.agg = r.agg /\ (s.rev = r.rev \/ s.event = r.event)
  <2>1. rows' = rows \cup {r}
    BY <1>2 DEF InsertRow
  <2>2. NoFork'
    BY <1>2, <2>1 DEF NoFork
  <2>3. Dense'
    <3>1. SUFFICES ASSUME NEW n \in 1..r.rev
                   PROVE  \E s \in rows' : s.agg = r.agg /\ s.rev = n
      BY <2>1 DEF Dense
    <3>2. CASE n = r.rev
      BY <2>1, <3>2
    <3>3. CASE n # r.rev
      <4>1. r.rev \in Nat \ {0}
        BY DEF Rows
      <4>2. PICK p \in rows : p.agg = r.agg /\ r.rev = p.rev + 1
        BY <3>3, <4>1 DEF WellFounded, Succeeds
      <4>3. p.rev \in Nat /\ n \in 1..p.rev
        BY <3>3, <4>1, <4>2 DEF Rows
      <4>. QED BY <2>1, <4>2, <4>3 DEF Dense
    <3>. QED BY <3>2, <3>3
  <2>4. LegalHistory'
    BY <2>1 DEF LegalHistory, WellFounded
  <2>. QED BY <2>1, <2>2, <2>3, <2>4
<1>. QED BY <1>1, <1>2

-----------------------------------------------------------------------------
(***************************************************************************)
(* The invariant is inductive.                                             *)
(***************************************************************************)

\* The service starts with empty tables and no request.
LEMMA InitIInv == Init => IInv
<1>. SUFFICES ASSUME Init PROVE IInv
  OBVIOUS
<1>1. TypeOK
  BY DEF Init, TypeOK, Phases, Replies
<1>2. Grounded /\ Admitted /\ NoFork /\ Dense /\ LegalHistory
  BY DEF Init, Grounded, Admitted, NoFork, Dense, LegalHistory
<1>. QED BY <1>1, <1>2 DEF IInv

\* Steps that only move a request along, without the read and the guards.
LEMMA QuietKeepsHistory ==
  ASSUME IInv, rows' = rows
  PROVE  NoFork' /\ Dense' /\ LegalHistory'
BY DEF IInv, NoFork, Dense, LegalHistory

\* A reply keeps everything but its own request as it was.
LEMMA AnswerKeepsInv ==
  ASSUME IInv, NEW t \in Requests, NEW a \in Replies, Answer(t, a),
         UNCHANGED <<rows, receipts, audits, cmd, seen>>, phase[t] # "idle"
  PROVE  IInv'
<1>1. TypeOK'
  BY DEF IInv, TypeOK, Answer, Phases
<1>2. Grounded' /\ Admitted'
  BY DEF IInv, Grounded, Admitted, Answer, TypeOK
<1>. QED BY <1>1, <1>2, QuietKeepsHistory DEF IInv

LEMMA ReceiveKeepsInv ==
  ASSUME IInv, NEW t \in Requests, NEW c \in Workload, Receive(t, c)
  PROVE  IInv'
<1>1. c \in Commands
  BY WorkloadAssumption
<1>2. TypeOK'
  BY <1>1 DEF IInv, TypeOK, Receive, Phases
<1>3. Grounded' /\ Admitted'
  BY DEF IInv, Grounded, Admitted, Receive, TypeOK
<1>. QED BY <1>2, <1>3, QuietKeepsHistory DEF IInv, Receive

LEMMA ReadLatestKeepsInv ==
  ASSUME IInv, NEW t \in Requests, ReadLatest(t)
  PROVE  IInv'
<1>1. /\ phase[t] = "read"
      /\ phase' = [phase EXCEPT ![t] = "decide"] \/ phase' = [phase EXCEPT ![t] = "check"]
      /\ UNCHANGED <<rows, receipts, audits, cmd, reply>>
  BY DEF ReadLatest
<1>2. PICK s \in rows \cup {NoRow} :
        /\ seen' = [seen EXCEPT ![t] = s]
        /\ s = NoRow \/ (s \in rows /\ s.agg = cmd[t].agg)
  BY DEF ReadLatest, IsLatest
<1>3. TypeOK'
  BY <1>1, <1>2 DEF IInv, TypeOK, Phases
<1>4. Grounded'
  BY <1>1, <1>2 DEF IInv, TypeOK, Grounded
<1>5. Admitted'
  BY <1>1, <1>2 DEF IInv, TypeOK, Admitted
<1>. QED BY <1>1, <1>3, <1>4, <1>5, QuietKeepsHistory DEF IInv

LEMMA AdmitKeepsInv ==
  ASSUME IInv, NEW t \in Requests, Admit(t)
  PROVE  IInv'
<1>1. TypeOK'
  BY DEF IInv, TypeOK, Admit, Phases
<1>2. Grounded'
  BY DEF IInv, TypeOK, Grounded, Admit
<1>3. Admitted'
  <2>1. cmd[t] \in Commands
    BY DEF IInv, TypeOK, Admit
  <2>2. cmd[t].type \in CommandTypes
    BY <2>1 DEF Commands
  <2>3. \A kind \in Refused : kind \notin Refusals(cmd[t], seen[t])
    BY DEF Admit
  <2>4. CASE cmd[t].type = "create"
    <3>1. ProtectsImported(Family(cmd[t])) => cmd[t].agg \notin Imported
      BY <2>3, <2>4 DEF Refusals, Refused, Visible, ChecksVisible, ProtectsImported
    <3>. QED BY <2>4, <3>1 DEF IInv, TypeOK, Admitted, Admit
  <2>5. CASE cmd[t].type # "create"
    <3>1. seen[t] # NoRow
      BY <2>3, <2>5 DEF Refusals, Refused
    <3>2. Guard(Family(cmd[t]), cmd[t].type, seen[t].state) /\ Owns(cmd[t], seen[t])
      BY <2>3, <2>5, <3>1 DEF Refusals, Refused
    <3>3. MayFollow(cmd[t], seen[t])
      BY <2>2, <2>5, <3>1, <3>2 DEF MayFollow, CommandTypes
    <3>. QED BY <2>5, <3>3 DEF IInv, TypeOK, Admitted, Admit
  <2>. QED BY <2>4, <2>5
<1>. QED BY <1>1, <1>2, <1>3, QuietKeepsHistory DEF IInv, Admit

LEMMA TransactionKeepsInv ==
  ASSUME IInv, NEW t \in Requests, phase[t] \in {"commit", "orphaned"},
         Transaction(t), phase' = [phase EXCEPT ![t] = "done"],
         reply' \in [Requests -> Replies], UNCHANGED <<cmd, seen>>
  PROVE  IInv'
<1>. DEFINE r == NextRow(cmd[t], seen[t])
<1>1. r \in Rows /\ r.agg = cmd[t].agg /\ r.event = EventOf(cmd[t]) /\ WellFounded(r)
  BY PendingRow DEF IInv
<1>2. cmd[t] \in Commands
  BY DEF IInv, TypeOK
<1>3. rows' = InsertRow(r)
  BY DEF Transaction
<1>4. (rows \subseteq Rows)' /\ NoFork' /\ Dense' /\ LegalHistory'
  <2>. HIDE DEF r
  <2>. QED BY <1>1, <1>3, InsertKeepsHistory DEF IInv, TypeOK
<1>5. ResultOf(r) \in Results
  BY <1>1 DEF ResultOf, Results, Rows
<1>6. receipts' \subseteq Receipts
  <2>1. [key |-> cmd[t].key, cmd |-> cmd[t], result |-> ResultOf(r)] \in Receipts
    BY <1>2, <1>5 DEF Receipts, Commands
  <2>. QED BY <2>1 DEF IInv, TypeOK, Transaction, InsertReceipt
<1>7. audits' \subseteq Audits
  <2>1. [event |-> r.event, agg |-> r.agg, result |-> ResultOf(r)] \in Audits
    BY <1>1, <1>2, <1>5 DEF Audits, Rows
  <2>. QED BY <2>1 DEF IInv, TypeOK, Transaction, InsertAudit
<1>8. TypeOK'
  BY <1>4, <1>6, <1>7 DEF IInv, TypeOK, Phases
<1>9. rows \subseteq rows'
  BY <1>3 DEF InsertRow
<1>10. Grounded' /\ Admitted'
  BY <1>9 DEF IInv, TypeOK, Grounded, Admitted
<1>. QED BY <1>4, <1>8, <1>10 DEF IInv

LEMMA NextKeepsInv == IInv /\ [Next]_vars => IInv'
<1>. SUFFICES ASSUME IInv, [Next]_vars PROVE IInv'
  OBVIOUS
<1>1. CASE UNCHANGED vars
  BY <1>1 DEF vars, IInv, TypeOK, Grounded, Admitted, NoFork, Dense, LegalHistory
<1>2. ASSUME NEW t \in Requests, NEW c \in Workload, Receive(t, c) PROVE IInv'
  BY <1>2, ReceiveKeepsInv
<1>3. ASSUME NEW t \in Requests, Quote(t) \/ NoReceipt(t) PROVE IInv'
  <2>1. /\ phase[t] \in {"quote", "check"}
        /\ \/ phase' = [phase EXCEPT ![t] = "check"]
           \/ phase' = [phase EXCEPT ![t] = "read"]
           \/ phase' = [phase EXCEPT ![t] = "decide"]
        /\ UNCHANGED <<rows, receipts, audits, cmd, seen, reply>>
    BY <1>3 DEF Quote, NoReceipt
  <2>2. TypeOK'
    BY <2>1 DEF IInv, TypeOK, Phases
  <2>3. Grounded' /\ Admitted'
    BY <2>1 DEF IInv, TypeOK, Grounded, Admitted
  <2>. QED BY <2>1, <2>2, <2>3, QuietKeepsHistory DEF IInv
<1>4. ASSUME NEW t \in Requests, RefuseApplication(t) PROVE IInv'
  <2>1. [kind |-> IF Visible(ContractOf[cmd[t].agg])
                    THEN "over_contract" ELSE "no_contract"] \in Replies
    BY DEF Replies, Refused
  <2>. QED BY <1>4, <2>1, AnswerKeepsInv DEF RefuseApplication
<1>5. ASSUME NEW t \in Requests, ReplayOrConflict(t) PROVE IInv'
  <2>1. PICK q \in receipts :
          \/ Answer(t, [kind |-> "replayed", result |-> q.result])
          \/ Answer(t, [kind |-> "key_conflict"])
    BY <1>5 DEF ReplayOrConflict
  <2>2. q.result \in Results
    BY DEF IInv, TypeOK, Receipts
  <2>3. /\ [kind |-> "replayed", result |-> q.result] \in Replies
        /\ [kind |-> "key_conflict"] \in Replies
    BY <2>2 DEF Replies
  <2>. QED BY <1>5, <2>1, <2>3, AnswerKeepsInv DEF ReplayOrConflict
<1>6. ASSUME NEW t \in Requests, ReadLatest(t) PROVE IInv'
  BY <1>6, ReadLatestKeepsInv
<1>7. ASSUME NEW t \in Requests, Refuse(t) PROVE IInv'
  <2>1. PICK kind \in Refused : Answer(t, [kind |-> kind])
    BY <1>7 DEF Refuse, Refusals
  <2>2. [kind |-> kind] \in Replies
    BY DEF Replies
  <2>. QED BY <1>7, <2>1, <2>2, AnswerKeepsInv DEF Refuse
<1>8. ASSUME NEW t \in Requests, Admit(t) PROVE IInv'
  BY <1>8, AdmitKeepsInv
<1>9. ASSUME NEW t \in Requests, Commit(t) PROVE IInv'
  <2>1. NextRow(cmd[t], seen[t]) \in Rows
    BY <1>9, PendingRow DEF IInv, Commit
  <2>2. ResultOf(NextRow(cmd[t], seen[t])) \in Results
    BY <2>1 DEF ResultOf, Results, Rows
  <2>3. reply' \in [Requests -> Replies]
    BY <1>9, <2>2 DEF IInv, TypeOK, Commit, Answer, Replies
  <2>. QED BY <1>9, <2>3, TransactionKeepsInv DEF Commit, Answer
<1>10. ASSUME NEW t \in Requests, LateCommit(t) PROVE IInv'
  BY <1>10, TransactionKeepsInv DEF LateCommit, IInv, TypeOK
<1>11. ASSUME NEW t \in Requests, Orphan(t) PROVE IInv'
  <2>1. [kind |-> "failed"] \in Replies
    BY DEF Replies
  <2>2. TypeOK'
    BY <1>11, <2>1 DEF IInv, TypeOK, Orphan, Phases
  <2>3. Grounded' /\ Admitted'
    BY <1>11 DEF IInv, TypeOK, Grounded, Admitted, Orphan
  <2>. QED BY <1>11, <2>2, <2>3, QuietKeepsHistory DEF IInv, Orphan
<1>12. ASSUME NEW t \in Requests, Fail(t) PROVE IInv'
  <2>1. [kind |-> "failed"] \in Replies
    BY DEF Replies
  <2>. QED BY <1>12, <2>1, AnswerKeepsInv DEF Fail
<1>13. ASSUME NEW t \in Requests, MissDispatch(t) PROVE IInv'
  <2>1. [kind |-> "not_found"] \in Replies
    BY DEF Replies, Refused
  <2>. QED BY <1>13, <2>1, AnswerKeepsInv DEF MissDispatch
<1>. QED
  BY <1>1, <1>2, <1>3, <1>4, <1>5, <1>6, <1>7, <1>8, <1>9, <1>10, <1>11, <1>12, <1>13
  DEF Next, Serve

-----------------------------------------------------------------------------
(***************************************************************************)
(* Safety.                                                                 *)
(***************************************************************************)

\* The inductive invariant holds of every behaviour.
THEOREM InvariantHolds == Spec => []IInv
BY InitIInv, NextKeepsInv, PTL DEF Spec

\* Tables, tasks and replies keep their types.
THEOREM TypeCorrect == Spec => []TypeOK
<1>1. IInv => TypeOK
  BY DEF IInv
<1>. QED BY <1>1, InvariantHolds, PTL

\* Concurrent and retried commands never fork an aggregate's history.
THEOREM NoForkHolds == Spec => []NoFork
<1>1. IInv => NoFork
  BY DEF IInv
<1>. QED BY <1>1, InvariantHolds, PTL

\* Every stored revision is a first one or follows legally from the one below it.
THEOREM LegalHistoryHolds == Spec => []LegalHistory
<1>1. IInv => LegalHistory
  BY DEF IInv
<1>. QED BY <1>1, InvariantHolds, PTL

-----------------------------------------------------------------------------
(***************************************************************************)
(* Steps of the history.                                                   *)
(***************************************************************************)

\* The store only ever grows.
LEMMA NextAppends ==
  Next => /\ receipts \subseteq receipts' /\ rows \subseteq rows' /\ audits \subseteq audits'
BY DEF Next, Serve, Receive, Quote, RefuseApplication, ReplayOrConflict, NoReceipt,
       ReadLatest, MissDispatch, Refuse, Admit, Commit, Orphan, LateCommit, Fail, Transaction,
       InsertReceipt, InsertRow, InsertAudit

\* Receipts, revisions and audit events are never changed or removed.
THEOREM StoreIsAppendOnly == Spec => StoreAppendOnly
BY NextAppends, PTL DEF Spec, StoreAppendOnly

\* A step that changes the history inserts the pending revision of one request,
\* above every revision of its aggregate.
LEMMA HistoryStep ==
  ASSUME IInv, Next, rows' # rows
  PROVE  \E t \in Requests :
           /\ phase[t] \in {"commit", "orphaned"}
           /\ LET r == NextRow(cmd[t], seen[t])
              IN  /\ rows' = rows \cup {r}
                  /\ \A q \in rows :
                       q.agg = r.agg => q.rev < r.rev /\ q.event # r.event
<1>1. PICK t \in Requests :
        Transaction(t) /\ phase[t] \in {"commit", "orphaned"}
  BY DEF Next, Serve, Receive, Quote, RefuseApplication, ReplayOrConflict, NoReceipt,
         ReadLatest, MissDispatch, Refuse, Admit, Commit, Orphan, LateCommit, Fail
<1>. DEFINE r == NextRow(cmd[t], seen[t])
<1>2. r \in Rows
  BY <1>1, PendingRow DEF IInv
<1>. HIDE DEF r
<1>3. rows' = InsertRow(r)
  BY <1>1 DEF Transaction, r
<1>4. ~ \E s \in rows : s.agg = r.agg /\ (s.rev = r.rev \/ s.event = r.event)
  BY <1>3 DEF InsertRow
<1>5. rows' = rows \cup {r}
  BY <1>3, <1>4 DEF InsertRow
<1>6. ASSUME NEW q \in rows, q.agg = r.agg PROVE q.rev < r.rev
  <2>1. q.rev \in Nat \ {0} /\ r.rev \in Nat \ {0}
    BY <1>2 DEF IInv, TypeOK, Rows
  <2>2. r.rev \notin 1..q.rev
    BY <1>4, <1>6 DEF IInv, Dense
  <2>. QED BY <2>1, <2>2
<1>. QED BY <1>1, <1>4, <1>5, <1>6 DEF r

\* No command follows a final state.
LEMMA FinalEndsHistory ==
  ASSUME NEW r, NEW p, Succeeds(r, p)
  PROVE  ~ Final(p)
<1>1. /\ r.agg = p.agg
      /\ Lifecycle(FamilyOf[p.agg], r.event.type, p.state, r.state)
  BY DEF Succeeds
<1>. QED BY <1>1 DEF Lifecycle, Final

\* A final revision is the last of its aggregate.
LEMMA FinalIsLast ==
  ASSUME IInv, NEW p \in rows, Final(p), NEW q \in rows, q.agg = p.agg
  PROVE  q.rev <= p.rev
<1>1. p.rev \in Nat \ {0} /\ q.rev \in Nat \ {0}
  BY DEF IInv, TypeOK, Rows
<1>. SUFFICES ASSUME q.rev > p.rev PROVE FALSE
  BY <1>1
<1>2. PICK s \in rows : s.agg = p.agg /\ s.rev = p.rev + 1
  <2>1. p.rev + 1 \in 1..q.rev
    BY <1>1
  <2>. QED BY <2>1 DEF IInv, Dense
<1>3. PICK u \in rows : Succeeds(s, u)
  BY <1>1, <1>2 DEF IInv, LegalHistory
<1>4. u.rev \in Nat
  BY DEF IInv, TypeOK, Rows
<1>5. u = p
  <2>1. u.agg = p.agg /\ u.rev = p.rev
    BY <1>1, <1>2, <1>3, <1>4 DEF Succeeds
  <2>. QED BY <2>1 DEF IInv, NoFork
<1>. QED BY <1>3, <1>5, FinalEndsHistory

\* A decided record stays decided, whatever was admitted before the decision.
THEOREM DecisionsStandHolds == Spec => DecisionsStand
<1>1. IInv /\ [Next]_vars =>
        [\A r \in rows' \ rows : ~ \E p \in rows : p.agg = r.agg /\ Final(p)]_vars
  <2>. SUFFICES ASSUME IInv, Next, NEW r \in rows' \ rows,
                       NEW p \in rows, p.agg = r.agg, Final(p)
                PROVE  FALSE
    OBVIOUS
  <2>1. PICK t \in Requests :
          /\ phase[t] \in {"commit", "orphaned"}
          /\ rows' = rows \cup {NextRow(cmd[t], seen[t])}
          /\ \A q \in rows :
               q.agg = NextRow(cmd[t], seen[t]).agg
                 => q.rev < NextRow(cmd[t], seen[t]).rev
    BY HistoryStep
  <2>2. r = NextRow(cmd[t], seen[t])
    BY <2>1
  <2>3. r \in Rows /\ WellFounded(r)
    BY <2>1, <2>2, PendingRow DEF IInv
  <2>4. p.rev < r.rev /\ p.rev \in Nat \ {0}
    BY <2>1, <2>2 DEF IInv, TypeOK, Rows
  <2>5. PICK u \in rows : Succeeds(r, u)
    BY <2>3, <2>4 DEF WellFounded
  <2>6. u.agg = p.agg /\ r.rev = u.rev + 1 /\ u.rev \in Nat
    BY <2>5 DEF Succeeds, IInv, TypeOK, Rows
  <2>7. u.rev = p.rev
    BY <2>4, <2>6, FinalIsLast
  <2>8. u = p
    BY <2>6, <2>7 DEF IInv, NoFork
  <2>. QED BY <2>5, <2>8, FinalEndsHistory
<1>. QED BY <1>1, InvariantHolds, PTL DEF Spec, DecisionsStand

-----------------------------------------------------------------------------
(***************************************************************************)
(* Refinement.                                                             *)
(***************************************************************************)

\* The register reads the tables as the pipeline does.
LEMMA SameTables ==
  /\ Register!Commands = Commands
  /\ \A c \in Commands : Register!FirstRow(c) = FirstRow(c)
  /\ \A c \in Commands : \A p : Register!SuccessorRow(c, p) = SuccessorRow(c, p)
  /\ \A c \in Commands : Register!EventOf(c) = EventOf(c)
BY DEF Commands, Register!Commands, CommandTypes, Register!CommandTypes, Transitions,
       Register!Transitions, FirstRow, Register!FirstRow, SuccessorRow,
       Register!SuccessorRow, EventOf, Register!EventOf, NextState, Register!NextState,
       ExpenseNext, Register!ExpenseNext, ContractNext, Register!ContractNext,
       PaymentNext, Register!PaymentNext, LoopNext, Register!LoopNext,
       InvoiceNext, Register!InvoiceNext, RevenueNext, Register!RevenueNext,
       SupplierNext, Register!SupplierNext, MarketingNext, Register!MarketingNext,
       FundNext, Register!FundNext, Yes, Register!Yes, OwnerGiven, Register!OwnerGiven,
       ReadsFirst, Register!ReadsFirst, Absent, Register!Absent

\* What the guards of the pipeline admit is legal for the register.
LEMMA MayFollowIsLegal ==
  ASSUME NEW c, NEW p, MayFollow(c, p)
  PROVE  Register!Legal(c, p)
BY DEF MayFollow, Register!Legal, Guard, Register!Guard, ExpenseGuard,
       Register!ExpenseGuard, ContractGuard, Register!ContractGuard, PaymentGuard,
       Register!PaymentGuard, LoopGuard, Register!LoopGuard, InvoiceGuard,
       Register!InvoiceGuard, RevenueGuard, Register!RevenueGuard, SupplierGuard,
       Register!SupplierGuard, MarketingGuard, Register!MarketingGuard, FundGuard,
       Register!FundGuard, Owns, Register!Owns, OwnerBound, Register!OwnerBound,
       ScopeBound, Register!ScopeBound, Family, Transitions, Register!Transitions

\* The request pipeline implements the indivisible read-check-append register.
THEOREM Refinement == Spec => ImplementsRegister
<1>1. Init => Register!Init
  BY DEF Init, Register!Init
<1>2. IInv /\ [Next]_vars => [Register!Next]_rows
  <2>. SUFFICES ASSUME IInv, Next, rows' # rows
                PROVE  Register!Next
    BY DEF vars
  <2>1. PICK t \in Requests :
          /\ phase[t] \in {"commit", "orphaned"}
          /\ rows' = rows \cup {NextRow(cmd[t], seen[t])}
          /\ \A q \in rows :
               q.agg = NextRow(cmd[t], seen[t]).agg
                 => /\ q.rev < NextRow(cmd[t], seen[t]).rev
                    /\ q.event # NextRow(cmd[t], seen[t]).event
    BY HistoryStep
  <2>. DEFINE c == cmd[t]
              r == NextRow(cmd[t], seen[t])
  <2>2. c \in Commands
    BY <2>1 DEF IInv, TypeOK
  <2>3. r \in Rows /\ r.agg = c.agg /\ r.event = EventOf(c)
    BY <2>1, PendingRow DEF IInv
  <2>4. CASE c.type = "create"
    <3>1. r = FirstRow(c)
      BY <2>4 DEF NextRow
    <3>2. ~ Register!Exists(c.agg)
      <4>1. \A q \in rows : q.rev \in Nat \ {0}
        BY DEF IInv, TypeOK, Rows
      <4>2. r.rev = 1
        BY <3>1 DEF FirstRow
      <4>. QED BY <2>1, <2>3, <4>1, <4>2 DEF Register!Exists
    <3>3. Register!ProtectsImported(FamilyOf[c.agg]) => c.agg \notin Imported
      BY <2>1, <2>4 DEF IInv, Admitted, Register!ProtectsImported,
         ProtectsImported, Family
    <3>4. rows' = rows \cup {Register!FirstRow(c)}
      BY <2>1, <2>2, <3>1, SameTables
    <3>. QED BY <2>2, <2>4, <3>2, <3>3, <3>4, SameTables DEF Register!Next, Register!Create
  <2>5. CASE c.type # "create"
    <3>1. r = SuccessorRow(c, seen[t])
      BY <2>5 DEF NextRow
    <3>2. MayFollow(c, seen[t])
      BY <2>1, <2>5 DEF IInv, Admitted
    <3>3. seen[t] \in rows /\ seen[t].agg = c.agg
      BY <2>1, <3>2 DEF IInv, Grounded, MayFollow
    <3>4. Register!IsLatest(seen[t], c.agg)
      <4>1. \A q \in rows : q.rev \in Nat \ {0}
        BY DEF IInv, TypeOK, Rows
      <4>2. r.rev = seen[t].rev + 1
        BY <3>1 DEF SuccessorRow
      <4>3. \A q \in rows : q.agg = c.agg => q.rev < r.rev
        BY <2>1, <2>3
      <4>. QED BY <3>3, <4>1, <4>2, <4>3 DEF Register!IsLatest
    <3>5. Register!Fresh(c)
      BY <2>1, <2>2, <2>3, SameTables DEF Register!Fresh
    <3>6. rows' = rows \cup {Register!SuccessorRow(c, seen[t])}
      BY <2>1, <2>2, <3>1, SameTables
    <3>7. Register!Legal(c, seen[t])
      BY <3>2, MayFollowIsLegal
    <3>8. Register!Transition(c)
      BY <3>3, <3>4, <3>5, <3>6, <3>7 DEF Register!Transition
    <3>. QED BY <2>2, <3>8, SameTables DEF Register!Next
  <2>. QED BY <2>4, <2>5
<1>. QED BY <1>1, <1>2, InvariantHolds, PTL DEF Spec, ImplementsRegister, Register!Spec

-----------------------------------------------------------------------------
(***************************************************************************)
(* Replies, applications and receipts.                                     *)
(*                                                                         *)
(* A step is the arrival of a request, a transaction, or one that moves a  *)
(* request on and stores nothing.                                          *)
(***************************************************************************)
Transacts(t) ==
  /\ phase[t] \in {"commit", "orphaned"}
  /\ Transaction(t)
  /\ phase' = [phase EXCEPT ![t] = "done"]
  /\ UNCHANGED <<cmd, seen>>
  /\ \/ reply' = reply
     \/ reply' = [reply EXCEPT ![t] =
                    [kind |-> "accepted", result |-> ResultOf(NextRow(cmd[t], seen[t]))]]

MovesOn(t) ==
  /\ UNCHANGED <<rows, receipts, audits, cmd>>
  /\ phase[t] \notin {"idle", "done"}
  /\ \E p \in Phases \ {"idle", "quote"} :
       /\ phase' = [phase EXCEPT ![t] = p]
       /\ phase[t] = "quote" => p = "done" \/ Payable(cmd[t])
  /\ \/ reply' = reply
     \/ \E a \in Replies : a.kind # "accepted" /\ reply' = [reply EXCEPT ![t] = a]

LEMMA StepKinds ==
  ASSUME IInv, Next
  PROVE  \E t \in Requests :
           \/ \E c \in Workload : Receive(t, c)
           \/ Transacts(t)
           \/ MovesOn(t)
<1>1. PICK t \in Requests :
        \/ \E c \in Workload : Receive(t, c)
        \/ Serve(t) \/ Orphan(t) \/ LateCommit(t) \/ Fail(t)
  BY DEF Next
<1>2. CASE Quote(t) \/ NoReceipt(t) \/ Admit(t) \/ ReadLatest(t)
  BY <1>2 DEF Quote, NoReceipt, Admit, ReadLatest, MovesOn, Phases
<1>3. ASSUME NEW a \in Replies, a.kind # "accepted", phase[t] \notin {"idle", "done"},
             Answer(t, a), UNCHANGED <<rows, receipts, audits, cmd, seen>>
      PROVE  MovesOn(t)
  BY <1>3 DEF Answer, MovesOn, Phases
<1>4. CASE RefuseApplication(t) \/ MissDispatch(t) \/ Fail(t)
  <2>1. \A k \in {"over_contract", "no_contract", "not_found", "failed"} :
          [kind |-> k] \in Replies
    BY DEF Replies, Refused
  <2>2. PICK k \in {"over_contract", "no_contract", "not_found", "failed"} :
          Answer(t, [kind |-> k])
    BY <1>4 DEF RefuseApplication, MissDispatch, Fail
  <2>3. phase[t] \notin {"idle", "done"} /\ UNCHANGED <<rows, receipts, audits, cmd, seen>>
    BY <1>4 DEF RefuseApplication, MissDispatch, Fail
  <2>. QED BY <1>3, <2>1, <2>2, <2>3
<1>5. CASE ReplayOrConflict(t)
  <2>1. PICK q \in receipts :
          \/ Answer(t, [kind |-> "replayed", result |-> q.result])
          \/ Answer(t, [kind |-> "key_conflict"])
    BY <1>5 DEF ReplayOrConflict
  <2>2. /\ [kind |-> "replayed", result |-> q.result] \in Replies
        /\ [kind |-> "key_conflict"] \in Replies
    BY DEF Replies, IInv, TypeOK, Receipts
  <2>3. phase[t] \notin {"idle", "done"} /\ UNCHANGED <<rows, receipts, audits, cmd, seen>>
    BY <1>5 DEF ReplayOrConflict
  <2>. QED BY <1>3, <2>1, <2>2, <2>3
<1>6. CASE Refuse(t)
  <2>1. PICK kind \in Refused : Answer(t, [kind |-> kind])
    BY <1>6 DEF Refuse, Refusals
  <2>2. [kind |-> kind] \in Replies /\ kind # "accepted"
    BY DEF Replies, Refused
  <2>3. phase[t] \notin {"idle", "done"} /\ UNCHANGED <<rows, receipts, audits, cmd, seen>>
    BY <1>6 DEF Refuse
  <2>. QED BY <1>3, <2>1, <2>2, <2>3
<1>7. CASE Orphan(t)
  <2>1. [kind |-> "failed"] \in Replies
    BY DEF Replies
  <2>. QED BY <1>7, <2>1 DEF Orphan, MovesOn, Phases
<1>8. CASE Commit(t) \/ LateCommit(t)
  BY <1>8 DEF Commit, LateCommit, Answer, Transacts
<1>. QED BY <1>1, <1>2, <1>4, <1>5, <1>6, <1>7, <1>8 DEF Serve

\* What a transaction leaves behind: a row, a receipt and an audit event that
\* its own inserts wrote or gave way to.
LEMMA TransactionLeaves ==
  ASSUME IInv, NEW t \in Requests, Transacts(t)
  PROVE  LET r == NextRow(cmd[t], seen[t])
         IN  /\ r \in Rows /\ r.agg = cmd[t].agg /\ r.event = EventOf(cmd[t])
             /\ rows \subseteq rows' /\ receipts \subseteq receipts' /\ audits \subseteq audits'
             /\ \A s \in rows' : s \in rows \/ s = r
             /\ \E s \in rows' : s.agg = r.agg /\ (s.rev = r.rev \/ s.event = r.event)
             /\ \A q \in receipts' : q \in receipts \/ (q.key = cmd[t].key /\ q.cmd = cmd[t])
             /\ \E q \in receipts' : q.key = cmd[t].key
             /\ \A b \in audits' : b \in audits \/ (b.event = r.event /\ b.agg = r.agg)
             /\ \E b \in audits' : b.event = r.event
<1>. DEFINE r == NextRow(cmd[t], seen[t])
<1>1. r \in Rows /\ r.agg = cmd[t].agg /\ r.event = EventOf(cmd[t])
  BY PendingRow DEF IInv, Transacts
<1>. DEFINE q == [key |-> cmd[t].key, cmd |-> cmd[t], result |-> ResultOf(r)]
            b == [event |-> r.event, agg |-> r.agg, result |-> ResultOf(r)]
<1>2. /\ rows' = InsertRow(r)
      /\ receipts' = InsertReceipt(q)
      /\ audits' = InsertAudit(b)
  BY DEF Transacts, Transaction
<1>3. /\ q.key = cmd[t].key /\ q.cmd = cmd[t]
      /\ b.event = r.event /\ b.agg = r.agg
  OBVIOUS
<1>. HIDE DEF r, q, b
<1>4. /\ rows \subseteq rows'
      /\ \A s \in rows' : s \in rows \/ s = r
      /\ \E s \in rows' : s.agg = r.agg /\ (s.rev = r.rev \/ s.event = r.event)
  BY <1>2 DEF InsertRow
<1>5. /\ receipts \subseteq receipts'
      /\ \A p \in receipts' : p \in receipts \/ (p.key = cmd[t].key /\ p.cmd = cmd[t])
      /\ \E p \in receipts' : p.key = cmd[t].key
  BY <1>2, <1>3 DEF InsertReceipt
<1>6. /\ audits \subseteq audits'
      /\ \A p \in audits' : p \in audits \/ (p.event = r.event /\ p.agg = r.agg)
      /\ \E p \in audits' : p.event = r.event
  BY <1>2, <1>3 DEF InsertAudit
<1>. QED BY <1>1, <1>4, <1>5, <1>6 DEF r

\* An accepted request is at its end, and settled.
Settled ==
  \A t \in Requests :
    reply[t].kind = "accepted" =>
      /\ phase[t] = "done"
      /\ \E r \in rows :
           /\ r.agg = cmd[t].agg
           /\ r.rev = reply[t].result.rev \/ r.event = EventOf(cmd[t])

LEMMA SettledStep == IInv /\ Settled /\ [Next]_vars => Settled'
<1>. SUFFICES ASSUME IInv, Settled, [Next]_vars PROVE Settled'
  OBVIOUS
<1>1. CASE UNCHANGED vars
  BY <1>1 DEF vars, Settled, EventOf
<1>2. ASSUME NEW t \in Requests, NEW c \in Workload, Receive(t, c) PROVE Settled'
  BY <1>2 DEF Receive, Settled, EventOf, IInv, TypeOK
<1>3. ASSUME NEW t \in Requests, MovesOn(t) PROVE Settled'
  BY <1>3 DEF MovesOn, Settled, EventOf, IInv, TypeOK
<1>4. ASSUME NEW t \in Requests, Transacts(t) PROVE Settled'
  <2>. DEFINE r == NextRow(cmd[t], seen[t])
  <2>1. rows \subseteq rows' /\ r.agg = cmd[t].agg /\ r.event = EventOf(cmd[t])
    BY <1>4, TransactionLeaves
  <2>2. PICK s \in rows' : s.agg = cmd[t].agg /\ (s.rev = r.rev \/ s.event = EventOf(cmd[t]))
    BY <1>4, <2>1, TransactionLeaves
  <2>3. ResultOf(r).rev = r.rev
    BY DEF ResultOf
  <2>. HIDE DEF r
  <2>4. /\ cmd' = cmd /\ phase[t] # "done" /\ phase' = [phase EXCEPT ![t] = "done"]
        /\ \/ reply' = reply
           \/ reply' = [reply EXCEPT ![t] = [kind |-> "accepted", result |-> ResultOf(r)]]
    BY <1>4 DEF Transacts, r
  <2>5. ASSUME NEW u \in Requests, u # t, reply'[u].kind = "accepted"
        PROVE  /\ phase'[u] = "done"
               /\ \E x \in rows' : /\ x.agg = cmd'[u].agg
                                   /\ x.rev = reply'[u].result.rev \/ x.event = EventOf(cmd'[u])
    BY <2>1, <2>4, <2>5 DEF Settled, IInv, TypeOK
  <2>6. ASSUME reply'[t].kind = "accepted"
        PROVE  /\ phase'[t] = "done"
               /\ \E x \in rows' : /\ x.agg = cmd'[t].agg
                                   /\ x.rev = reply'[t].result.rev \/ x.event = EventOf(cmd'[t])
    <3>1. phase'[t] = "done"
      BY <2>4 DEF IInv, TypeOK
    <3>2. reply'[t] # reply[t] => reply'[t].result.rev = r.rev
      BY <2>3, <2>4 DEF IInv, TypeOK
    <3>3. reply'[t] # reply[t]
      BY <2>4, <2>6 DEF Settled
    <3>. QED BY <2>2, <2>4, <3>1, <3>2, <3>3
  <2>. QED BY <2>5, <2>6 DEF Settled, EventOf
<1>. QED BY <1>1, <1>2, <1>3, <1>4, StepKinds

\* What an accepted reply says is so: the revision it names is there, by
\* whomever, or its own event was applied by an earlier attempt (the answers of
\* 200 and 201, which do not look at what the inserts did).
THEOREM AcceptedIsSettledHolds == Spec => []AcceptedIsSettled
<1>1. Init => Settled
  BY DEF Init, Settled, NoReply
<1>2. Settled => AcceptedIsSettled
  BY DEF Settled, AcceptedIsSettled
<1>. QED BY <1>1, <1>2, SettledStep, InvariantHolds, PTL DEF Spec

-----------------------------------------------------------------------------
(***************************************************************************)
(* Tracing a revision back to its command.  Three inserts each give way    *)
(* to a conflict of their own, so what ties them together is not the       *)
(* transaction but the keys: everything in the tables stems from a request *)
(* that was taken up, and requests with one key carry one command.         *)
(***************************************************************************)
Stems(e, a) ==
  \E t \in Requests : phase[t] # "idle" /\ EventOf(cmd[t]) = e /\ cmd[t].agg = a

OneCommandPerKey ==
  \A t, u \in Requests :
    phase[t] # "idle" /\ phase[u] # "idle" /\ cmd[t].key = cmd[u].key => cmd[t] = cmd[u]

Traced ==
  /\ OneCommandPerKey
  /\ \A q \in receipts : \E t \in Requests :
       phase[t] # "idle" /\ q.cmd = cmd[t] /\ q.key = cmd[t].key
  /\ \A r \in rows : Stems(r.event, r.agg)
  /\ \A b \in audits : Stems(b.event, b.agg)
  /\ \A r \in rows : /\ \E q \in receipts : q.key = r.event.key
                     /\ \E b \in audits : b.event = r.event

\* Requests that go on, and tables that stay, keep what stems from a request.
LEMMA StemsKept ==
  ASSUME NEW e, NEW a, Stems(e, a),
         \A t \in Requests : phase[t] # "idle" => phase'[t] # "idle" /\ cmd'[t] = cmd[t]
  PROVE  Stems(e, a)'
BY DEF Stems, EventOf

LEMMA TracedStep ==
  ASSUME KeyPerCommand
  PROVE  IInv /\ Traced /\ [Next]_vars => Traced'
<1>. SUFFICES ASSUME IInv, Traced, [Next]_vars PROVE Traced'
  OBVIOUS
<1>1. CASE UNCHANGED vars
  BY <1>1 DEF vars, Traced, OneCommandPerKey, Stems, EventOf
<1>2. ASSUME NEW t \in Requests, NEW c \in Workload, Receive(t, c) PROVE Traced'
  <2>1. /\ phase[t] = "idle" /\ cmd' = [cmd EXCEPT ![t] = c]
        /\ \A u \in Requests : u # t => phase'[u] = phase[u] /\ cmd'[u] = cmd[u]
        /\ \A u \in Requests : phase[u] # "idle" /\ cmd[u].key = c.key => cmd[u] = c
        /\ cmd'[t] = c
        /\ UNCHANGED <<rows, receipts, audits>>
    BY <1>2 DEF Receive, IInv, TypeOK
  <2>2. OneCommandPerKey'
    BY <2>1 DEF Traced, OneCommandPerKey
  <2>3. \A u \in Requests : phase[u] # "idle" => phase'[u] # "idle" /\ cmd'[u] = cmd[u]
    BY <2>1
  <2>. QED BY <2>1, <2>2, <2>3, StemsKept DEF Traced
<1>3. ASSUME NEW t \in Requests, MovesOn(t) PROVE Traced'
  <2>1. /\ phase[t] # "idle" /\ UNCHANGED <<rows, receipts, audits, cmd>>
        /\ \A u \in Requests : phase[u] # "idle" <=> phase'[u] # "idle"
    BY <1>3 DEF MovesOn, IInv, TypeOK
  <2>2. OneCommandPerKey'
    BY <2>1 DEF Traced, OneCommandPerKey
  <2>. QED BY <2>1, <2>2, StemsKept DEF Traced
<1>4. ASSUME NEW t \in Requests, Transacts(t) PROVE Traced'
  <2>. DEFINE r == NextRow(cmd[t], seen[t])
  <2>1. /\ phase[t] # "idle" /\ cmd' = cmd
        /\ \A u \in Requests : phase[u] # "idle" <=> phase'[u] # "idle"
    BY <1>4 DEF Transacts, IInv, TypeOK
  <2>2. OneCommandPerKey'
    BY <2>1 DEF Traced, OneCommandPerKey
  <2>3. /\ r.agg = cmd[t].agg /\ r.event = EventOf(cmd[t])
        /\ receipts \subseteq receipts' /\ audits \subseteq audits'
        /\ \A s \in rows' : s \in rows \/ s = r
        /\ \A q \in receipts' : q \in receipts \/ (q.key = cmd[t].key /\ q.cmd = cmd[t])
        /\ \E q \in receipts' : q.key = cmd[t].key
        /\ \A b \in audits' : b \in audits \/ (b.event = r.event /\ b.agg = r.agg)
        /\ \E b \in audits' : b.event = r.event
    BY <1>4, TransactionLeaves
  <2>. HIDE DEF r
  <2>4. /\ \A e, a : e = r.event /\ a = r.agg => Stems(e, a)'
        /\ r.event.key = cmd[t].key
    BY <2>1, <2>3 DEF Stems, EventOf
  <2>5. \A e, a : Stems(e, a) => Stems(e, a)'
    BY <2>1, StemsKept
  <2>6. /\ \A s \in rows' : Stems(s.event, s.agg)'
        /\ \A b \in audits' : Stems(b.event, b.agg)'
    BY <2>3, <2>4, <2>5 DEF Traced
  <2>7. \A q \in receipts' : \E u \in Requests :
          phase'[u] # "idle" /\ q.cmd = cmd'[u] /\ q.key = cmd'[u].key
    BY <2>1, <2>3 DEF Traced
  <2>8. \A s \in rows' : /\ \E q \in receipts' : q.key = s.event.key
                         /\ \E b \in audits' : b.event = s.event
    BY <2>3, <2>4 DEF Traced
  <2>. QED BY <2>2, <2>6, <2>7, <2>8 DEF Traced
<1>. QED BY <1>1, <1>2, <1>3, <1>4, StepKinds

LEMMA TracedIsTraceable == Traced => RevisionsTraceable
<1>. SUFFICES ASSUME Traced, NEW r \in rows
              PROVE  /\ \E q \in receipts : q.key = r.event.key
                     /\ \A q \in receipts :
                          q.key = r.event.key => q.cmd.agg = r.agg /\ EventOf(q.cmd) = r.event
                     /\ \E a \in audits : a.event = r.event /\ a.agg = r.agg
  BY DEF RevisionsTraceable
<1>1. PICK t \in Requests : phase[t] # "idle" /\ EventOf(cmd[t]) = r.event /\ cmd[t].agg = r.agg
  BY DEF Traced, Stems
<1>2. r.event.key = cmd[t].key
  BY <1>1 DEF EventOf
<1>3. ASSUME NEW q \in receipts, q.key = r.event.key
      PROVE  q.cmd.agg = r.agg /\ EventOf(q.cmd) = r.event
  BY <1>1, <1>2, <1>3 DEF Traced, OneCommandPerKey
<1>4. PICK b \in audits : b.event = r.event
  BY DEF Traced
<1>5. PICK u \in Requests : phase[u] # "idle" /\ EventOf(cmd[u]) = b.event /\ cmd[u].agg = b.agg
  BY DEF Traced, Stems
<1>6. cmd[u].key = cmd[t].key
  <2>1. EventOf(cmd[u]).key = cmd[u].key /\ EventOf(cmd[t]).key = cmd[t].key
    BY DEF EventOf
  <2>. QED BY <1>1, <1>4, <1>5, <2>1
<1>7. b.agg = r.agg
  BY <1>1, <1>5, <1>6 DEF Traced, OneCommandPerKey
<1>. QED BY <1>3, <1>4, <1>7 DEF Traced

\* Where clients mint a key per command, each revision has the receipt and the
\* audit event of its own command, although receipt, revision and audit inserts
\* each give way to a conflict on their own.  (Where they do not, the run of the
\* careless clients leaves this property out.)
THEOREM RevisionsTraceableHolds == KeyPerCommand => (Spec => []RevisionsTraceable)
<1>. SUFFICES ASSUME KeyPerCommand PROVE Spec => []RevisionsTraceable
  OBVIOUS
<1>1. Init => Traced
  BY DEF Init, Traced, OneCommandPerKey
<1>2. IInv /\ Traced /\ [Next]_vars => Traced'
  BY TracedStep
<1>. QED BY <1>1, <1>2, TracedIsTraceable, InvariantHolds, PTL DEF Spec

-----------------------------------------------------------------------------
(***************************************************************************)
(* Payment applications and their contracts.  The contract is read first   *)
(* and nothing holds it until the transaction, so what is kept is that the *)
(* amount quoted stays in the history of the contract.                     *)
(***************************************************************************)

\* The amounts contract a has had while it was visible.
Quota(a) ==
  {Amount[p.data] : p \in {q \in rows : q.agg = a /\ q.state # "deleted"}}
  \cup (IF a \in Imported THEN {SourceAmount[a]} ELSE {})

Fits(g, v) ==
  \E n \in Quota(ContractOf[g]) : SourceApplied[ContractOf[g]] + Amount[v] <= n

Quoted ==
  /\ \A t \in Requests :
       phase[t] \notin {"idle", "quote", "done"} /\ NeedsContract(cmd[t]) =>
         Fits(cmd[t].agg, cmd[t].data)
  /\ \A r \in rows :
       FamilyOf[r.agg] = "payment" /\ r.event.type = "create" => Fits(r.agg, r.data)

\* An amount stays on file: revisions are never removed.
LEMMA FitsKept ==
  ASSUME rows \subseteq rows', NEW g, NEW v, Fits(g, v)
  PROVE  Fits(g, v)'
<1>1. Quota(ContractOf[g]) \subseteq Quota(ContractOf[g])'
  BY DEF Quota
<1>. QED BY <1>1 DEF Fits

\* What contract_items returns for a visible contract is an amount it has: the
\* revision with the highest number is unique.
LEMMA PayableFits ==
  ASSUME IInv, NEW c, Payable(c)
  PROVE  Fits(c.agg, c.data)
<1>. DEFINE a == ContractOf[c.agg]
<1>1. Visible(a) /\ SourceApplied[a] + Amount[c.data] <= ContractAmount(a)
  BY DEF Payable
<1>. HIDE DEF a
<1>2. ContractAmount(a) \in Quota(a)
  <2>1. CASE \E r \in rows : IsLatest(r, a) /\ r.state # "deleted"
    <3>1. PICK r \in rows : IsLatest(r, a) /\ r.state # "deleted"
      BY <2>1
    <3>2. ASSUME NEW s \in rows, IsLatest(s, a) PROVE s = r
      <4>1. s.rev \in Nat /\ r.rev \in Nat
        BY DEF IInv, TypeOK, Rows
      <4>2. s.rev <= r.rev /\ r.rev <= s.rev /\ s.agg = r.agg
        BY <3>1, <3>2 DEF IsLatest
      <4>. QED BY <4>1, <4>2 DEF IInv, NoFork
    <3>3. (CHOOSE s \in rows : IsLatest(s, a)) = r
      BY <3>1, <3>2
    <3>. QED BY <2>1, <3>1, <3>3 DEF ContractAmount, Quota, IsLatest
  <2>2. CASE ~ \E r \in rows : IsLatest(r, a) /\ r.state # "deleted"
    BY <1>1, <2>2 DEF ContractAmount, Visible, Quota
  <2>. QED BY <2>1, <2>2
<1>. QED BY <1>1, <1>2 DEF Fits, a

LEMMA QuotedStep == IInv /\ Quoted /\ [Next]_vars => Quoted'
<1>. SUFFICES ASSUME IInv, Quoted, [Next]_vars PROVE Quoted'
  OBVIOUS
<1>0. rows \subseteq rows' => \A g, v : Fits(g, v) => Fits(g, v)'
  BY FitsKept
<1>1. CASE UNCHANGED vars
  BY <1>0, <1>1 DEF vars, Quoted, NeedsContract, Family
<1>2. ASSUME NEW t \in Requests, NEW c \in Workload, Receive(t, c) PROVE Quoted'
  <2>1. /\ rows' = rows
        /\ \A u \in Requests : u # t => phase'[u] = phase[u] /\ cmd'[u] = cmd[u]
        /\ cmd'[t] = c
        /\ NeedsContract(c) => phase'[t] = "quote"
    BY <1>2 DEF Receive, IInv, TypeOK
  <2>. QED BY <1>0, <2>1 DEF Quoted, NeedsContract, Family
<1>3. ASSUME NEW t \in Requests, MovesOn(t) PROVE Quoted'
  <2>1. /\ rows' = rows /\ cmd' = cmd /\ phase[t] \notin {"idle", "done"}
        /\ \A u \in Requests : u # t => phase'[u] = phase[u]
        /\ phase[t] = "quote" => phase'[t] = "done" \/ Payable(cmd[t])
    BY <1>3 DEF MovesOn, IInv, TypeOK
  <2>2. phase'[t] # "done" /\ NeedsContract(cmd[t]) => Fits(cmd[t].agg, cmd[t].data)
    BY <2>1, PayableFits DEF Quoted
  <2>. QED BY <1>0, <2>1, <2>2 DEF Quoted, NeedsContract, Family
<1>4. ASSUME NEW t \in Requests, Transacts(t) PROVE Quoted'
  <2>. DEFINE r == NextRow(cmd[t], seen[t])
  <2>1. /\ cmd' = cmd /\ phase[t] \in {"commit", "orphaned"} /\ phase'[t] = "done"
        /\ \A u \in Requests : u # t => phase'[u] = phase[u]
    BY <1>4 DEF Transacts, IInv, TypeOK
  <2>2. /\ rows \subseteq rows' /\ r.agg = cmd[t].agg /\ r.event = EventOf(cmd[t])
        /\ \A s \in rows' : s \in rows \/ s = r
    BY <1>4, TransactionLeaves
  <2>3. FamilyOf[r.agg] = "payment" /\ r.event.type = "create" => Fits(r.agg, r.data)
    <3>. SUFFICES ASSUME FamilyOf[r.agg] = "payment", r.event.type = "create"
                  PROVE  Fits(r.agg, r.data)
      OBVIOUS
    <3>1. cmd[t].type = "create"
      BY <2>2 DEF EventOf
    <3>2. r.data = cmd[t].data
      BY <3>1 DEF NextRow, FirstRow
    <3>3. NeedsContract(cmd[t])
      BY <2>2, <3>1 DEF NeedsContract, Family
    <3>. QED BY <2>1, <2>2, <3>2, <3>3 DEF Quoted
  <2>. HIDE DEF r
  <2>. QED BY <1>0, <2>1, <2>2, <2>3 DEF Quoted, NeedsContract, Family
<1>. QED BY <1>1, <1>2, <1>3, <1>4, StepKinds

\* A payment application on file fitted an amount its contract really had,
\* whatever happened to the contract between the quote and the transaction
\* (payment_create_request).
THEOREM ApplicationsQuotedHolds == Spec => []ApplicationsQuoted
<1>1. Init => Quoted
  BY DEF Init, Quoted
<1>2. Quoted => ApplicationsQuoted
  BY DEF Quoted, ApplicationsQuoted, Fits, Quota
<1>. QED BY <1>1, <1>2, QuotedStep, InvariantHolds, PTL DEF Spec

=============================================================================
