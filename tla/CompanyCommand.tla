---------------------------- MODULE CompanyCommand ----------------------------
(***************************************************************************)
(* The command pipeline of the native company service                      *)
(* (cmd/postgres_company_service): concurrent HTTP requests, each a task   *)
(* that talks to PostgreSQL through short psql processes.  A command looks *)
(* for a receipt of its Idempotency-Key, reads the latest revision of its  *)
(* aggregate, checks the transition, and then runs one transaction that    *)
(* inserts a receipt, the next revision and an audit event, each guarded   *)
(* only by the uniqueness constraints of the tables.  Nothing is held      *)
(* between the statements, so requests interleave between any two of them; *)
(* a psql process may time out while its transaction is still queued in    *)
(* the database, and the client may send the same command again.           *)
(***************************************************************************)
EXTENDS CommandRows, FiniteSets

CONSTANTS
  Requests,      \* HTTP requests; each is received once (bounds the runs)
  Workload,      \* the commands clients may send
  KeyPerCommand, \* TRUE: clients never reuse a key for another command
  ContractOf,    \* the contract a payment application draws on
  Amount,        \* amount_minor in a payload
  SourceAmount,  \* the amount of an imported contract
  SourceApplied  \* the imported applications against a contract, summed

Applications == {a \in Aggregates : FamilyOf[a] = "payment"}

ASSUME WorkloadAssumption == Workload \subseteq Commands

ASSUME ContractAssumption ==
  /\ ContractOf \in [Applications -> Aggregates]
  /\ Amount \in [Values -> Nat \ {0}]
  /\ SourceAmount \in [Aggregates -> Nat]
  /\ SourceApplied \in [Aggregates -> Nat]

VARIABLES
  receipts,  \* company_record rows of type company_command
  audits,    \* company_record rows of type company_audit_event
  phase,     \* where the task of each request stands
  cmd,       \* the command a request carries
  seen,      \* the latest revision the request read
  reply      \* the response sent to the client

taskVars == <<phase, cmd, seen, reply>>
vars == <<rows, receipts, audits, phase, cmd, seen, reply>>

Phases == {"idle", "quote", "check", "read", "decide", "commit", "orphaned", "done"}

NoCommand == [type |-> "none"]
NoRow     == [rev |-> 0, state |-> Absent]   \* (Json::null(), 0)
NoReply   == [kind |-> "none"]

\* The result object of a command, stored in the receipt and sent back.
Results == [rev : Nat \ {0}, state : States]

Receipts == [key : Keys, cmd : Commands, result : Results]
Audits   == [event : Events, agg : Aggregates, result : Results]

Refused ==
  {"exists", "read_only", "not_found", "bad_state", "not_owner",
   "no_contract", "over_contract"}

Replies ==
  {NoReply}
  \cup [kind : {"accepted", "replayed"}, result : Results]
  \cup [kind : Refused \cup {"key_conflict", "failed"}]

TypeOK ==
  /\ rows \subseteq Rows
  /\ receipts \subseteq Receipts
  /\ audits \subseteq Audits
  /\ phase \in [Requests -> Phases]
  /\ cmd \in [Requests -> Commands \cup {NoCommand}]
  /\ seen \in [Requests -> Rows \cup {NoRow}]
  /\ reply \in [Requests -> Replies]
  /\ \A t \in Requests : phase[t] # "idle" => cmd[t] \in Commands

-----------------------------------------------------------------------------
(***************************************************************************)
(* What a request computes from the revision it read.                      *)
(***************************************************************************)
Family(c) == FamilyOf[c.agg]

\* json_equal on the stored request: every field but the key.
SameRequest(c, d) == [c EXCEPT !.key = d.key] = d

\* Fault: imported source rows are not looked for.
Visible_CommandOnly(a) == \E r \in rows : IsLatest(r, a) /\ r.state # "deleted"

\* Some row of the aggregate is visible to contract_items/payment_items: an
\* imported one, or a command-owned one that is not deleted.
Visible(a) ==
  \/ a \in Imported
  \/ \E r \in rows : IsLatest(r, a) /\ r.state # "deleted"

\* The revision the transaction will try to insert.
NextRow(c, s) == IF c.type = "create" THEN FirstRow(c) ELSE SuccessorRow(c, s)

ResultOf(r) == [rev |-> r.rev, state |-> r.state]

\* The checks between the read and the transaction, as the set of refusals
\* that apply to command c after reading s.
Refusals(c, s) ==
  LET present == s # NoRow
      visible == IF ChecksVisible(Family(c)) THEN Visible(c.agg)
                 ELSE ProtectsImported(Family(c)) /\ c.agg \in Imported
      legal   == Guard(Family(c), c.type, s.state)
  IN  {kind \in Refused :
        \/ /\ kind = "exists" /\ c.type = "create"
           /\ present \/ visible
        \/ /\ c.type # "create" /\ ~ present
           /\ kind = IF visible THEN "read_only" ELSE "not_found"
        \/ /\ c.type # "create" /\ present
           /\ kind = "bad_state" /\ ~ legal
           /\ OwnerFirst(Family(c)) => Owns(c, s)
        \/ /\ c.type # "create" /\ present
           /\ kind = "not_owner" /\ ~ Owns(c, s)
           /\ OwnerFirst(Family(c)) \/ legal}

\* A payment application is created against a contract on file.
NeedsContract(c) == Family(c) = "payment" /\ c.type = "create"

\* amount_minor of the contract as contract_items returns it.
ContractAmount(a) ==
  IF \E r \in rows : IsLatest(r, a) /\ r.state # "deleted"
    THEN Amount[(CHOOSE r \in rows : IsLatest(r, a)).data]
    ELSE SourceAmount[a]

\* Fault: the application is checked against the contract's amount alone.
Payable_Gross(c) ==
  LET a == ContractOf[c.agg]
  IN  Visible(a) /\ Amount[c.data] <= ContractAmount(a)

\* payment_create_request accepts the application: the contract is visible,
\* and this application fits in what the imported ones leave of its amount.
\* Applications created through the service are not counted.
Payable(c) ==
  LET a == ContractOf[c.agg]
  IN  Visible(a) /\ SourceApplied[a] + Amount[c.data] <= ContractAmount(a)

-----------------------------------------------------------------------------
(***************************************************************************)
(* The three INSERT ... ON CONFLICT DO NOTHING of the transaction.         *)
(***************************************************************************)

InsertReceipt(q) ==
  IF \E p \in receipts : p.key = q.key THEN receipts ELSE receipts \cup {q}

\* Fault: no UNIQUE (aggregate_type, aggregate_id, source_event_id).
InsertRow_NoEventKey(r) ==
  IF \E s \in rows : s.agg = r.agg /\ s.rev = r.rev
    THEN rows ELSE rows \cup {r}

\* PRIMARY KEY (type, id, revision) and UNIQUE (type, id, source_event_id).
InsertRow(r) ==
  IF \E s \in rows : s.agg = r.agg /\ (s.rev = r.rev \/ s.event = r.event)
    THEN rows ELSE rows \cup {r}

\* Fault: audit identity built from the revision instead of the event.
InsertAudit_PerRevision(a) ==
  IF \E b \in audits : b.agg = a.agg /\ b.result.rev = a.result.rev
    THEN audits ELSE audits \cup {a}

InsertAudit(a) ==
  IF \E b \in audits : b.event = a.event THEN audits ELSE audits \cup {a}

\* BEGIN; LOCK TABLE ... SHARE ROW EXCLUSIVE; three inserts; COMMIT.  The
\* lock serialises the transactions, so each is one step.
Transaction(t) ==
  LET r == NextRow(cmd[t], seen[t])
  IN  /\ receipts' = InsertReceipt(
           [key |-> cmd[t].key, cmd |-> cmd[t], result |-> ResultOf(r)])
      /\ rows' = InsertRow(r)
      /\ audits' = InsertAudit(
           [event |-> r.event, agg |-> r.agg, result |-> ResultOf(r)])

-----------------------------------------------------------------------------
Answer(t, answer) ==
  /\ phase' = [phase EXCEPT ![t] = "done"]
  /\ reply' = [reply EXCEPT ![t] = answer]

\* A request arrives.  Under KeyPerCommand it may repeat an earlier one (a
\* retry, even while the first is still running) but not reuse its key.
Receive(t, c) ==
  /\ phase[t] = "idle"
  /\ KeyPerCommand =>
       \A u \in Requests : phase[u] # "idle" /\ cmd[u].key = c.key => cmd[u] = c
  /\ phase' = [phase EXCEPT ![t] =
                 IF NeedsContract(c) THEN "quote"
                 ELSE IF ReadsFirst(Family(c)) /\ c.type # "create" THEN "read"
                 ELSE "check"]
  /\ cmd' = [cmd EXCEPT ![t] = c]
  /\ UNCHANGED <<rows, receipts, audits, seen, reply>>

\* payment_create_request reads the contract, before any receipt is looked for.
Quote(t) ==
  /\ phase[t] = "quote"
  /\ Payable(cmd[t])
  /\ phase' = [phase EXCEPT ![t] = "check"]
  /\ UNCHANGED <<rows, receipts, audits, cmd, seen, reply>>

RefuseApplication(t) ==
  /\ phase[t] = "quote"
  /\ ~ Payable(cmd[t])
  /\ Answer(t, [kind |-> IF Visible(ContractOf[cmd[t].agg])
                           THEN "over_contract" ELSE "no_contract"])
  /\ UNCHANGED <<rows, receipts, audits, cmd, seen>>

\* existing_expense_command / existing_company_command finds a receipt.
ReplayOrConflict(t) ==
  /\ phase[t] = "check"
  /\ \E q \in receipts :
       /\ q.key = cmd[t].key
       /\ \/ /\ SameRequest(q.cmd, cmd[t])
             /\ Answer(t, [kind |-> "replayed", result |-> q.result])
          \/ /\ ~ SameRequest(q.cmd, cmd[t])
             /\ Answer(t, [kind |-> "key_conflict"])
  /\ UNCHANGED <<rows, receipts, audits, cmd, seen>>

\* ... or finds none.
NoReceipt(t) ==
  /\ phase[t] = "check"
  /\ \A q \in receipts : q.key # cmd[t].key
  /\ phase' = [phase EXCEPT ![t] =
                 IF ReadsFirst(Family(cmd[t])) THEN "decide" ELSE "read"]
  /\ UNCHANGED <<rows, receipts, audits, cmd, seen, reply>>

\* latest_expense_payload and its siblings.
ReadLatest(t) ==
  /\ phase[t] = "read"
  /\ \/ \E r \in rows :
          /\ IsLatest(r, cmd[t].agg)
          /\ seen' = [seen EXCEPT ![t] = r]
     \/ /\ ~ Exists(cmd[t].agg)
        /\ Family(cmd[t]) # "dispatch"
        /\ seen' = [seen EXCEPT ![t] = NoRow]
  /\ phase' = [phase EXCEPT ![t] =
                 IF ReadsFirst(Family(cmd[t])) THEN "check" ELSE "decide"]
  /\ UNCHANGED <<rows, receipts, audits, cmd, reply>>

\* The approval of a dispatch takes the amount it must be authorised for from
\* the dispatch, and without one is refused on the spot.
MissDispatch(t) ==
  /\ phase[t] = "read"
  /\ Family(cmd[t]) = "dispatch"
  /\ ~ Exists(cmd[t].agg)
  /\ Answer(t, [kind |-> "not_found"])
  /\ UNCHANGED <<rows, receipts, audits, cmd, seen>>

\* Fault: the state guard drops the request without an answer.
Refuse_Silent(t) ==
  /\ phase[t] = "decide"
  /\ \E kind \in Refusals(cmd[t], seen[t]) \ {"bad_state"} :
       Answer(t, [kind |-> kind])
  /\ UNCHANGED <<rows, receipts, audits, cmd, seen>>

\* The guards refuse the command (403, 404 or 409).
Refuse(t) ==
  /\ phase[t] = "decide"
  /\ \E kind \in Refusals(cmd[t], seen[t]) : Answer(t, [kind |-> kind])
  /\ UNCHANGED <<rows, receipts, audits, cmd, seen>>

\* The guards admit it and psql is started on the transaction.
Admit(t) ==
  /\ phase[t] = "decide"
  /\ Refusals(cmd[t], seen[t]) = {}
  /\ phase' = [phase EXCEPT ![t] = "commit"]
  /\ UNCHANGED <<rows, receipts, audits, cmd, seen, reply>>

\* Fault: the request answers without waiting for the transaction.
Commit_Early(t) ==
  /\ phase[t] = "commit"
  /\ phase' = [phase EXCEPT ![t] = "orphaned"]
  /\ reply' = [reply EXCEPT ![t] =
                 [kind |-> "accepted",
                  result |-> ResultOf(NextRow(cmd[t], seen[t]))]]
  /\ UNCHANGED <<rows, receipts, audits, cmd, seen>>

\* The transaction commits and the request answers 200/201 with the result
\* it computed, whatever the inserts did.
Commit(t) ==
  /\ phase[t] = "commit"
  /\ Transaction(t)
  /\ Answer(t, [kind |-> "accepted",
                result |-> ResultOf(NextRow(cmd[t], seen[t]))])
  /\ UNCHANGED <<cmd, seen>>

\* psql is killed by its timeout (or the service stops) while the backend
\* still holds the transaction: the client sees a failure.
Orphan(t) ==
  /\ phase[t] = "commit"
  /\ phase' = [phase EXCEPT ![t] = "orphaned"]
  /\ reply' = [reply EXCEPT ![t] = [kind |-> "failed"]]
  /\ UNCHANGED <<rows, receipts, audits, cmd, seen>>

LateCommit(t) ==
  /\ phase[t] = "orphaned"
  /\ Transaction(t)
  /\ phase' = [phase EXCEPT ![t] = "done"]
  /\ UNCHANGED <<cmd, seen, reply>>

\* A statement fails, or the service stops, before anything is written.
Fail(t) ==
  /\ phase[t] \in {"quote", "check", "read", "decide", "commit", "orphaned"}
  /\ Answer(t, [kind |-> "failed"])
  /\ UNCHANGED <<rows, receipts, audits, cmd, seen>>

-----------------------------------------------------------------------------
Init ==
  /\ rows = {} /\ receipts = {} /\ audits = {}
  /\ phase = [t \in Requests |-> "idle"]
  /\ cmd = [t \in Requests |-> NoCommand]
  /\ seen = [t \in Requests |-> NoRow]
  /\ reply = [t \in Requests |-> NoReply]

\* The steps the service takes by itself once it has a request.
Serve(t) ==
  \/ Quote(t) \/ RefuseApplication(t)
  \/ ReplayOrConflict(t) \/ NoReceipt(t)
  \/ ReadLatest(t) \/ MissDispatch(t)
  \/ Refuse(t) \/ Admit(t) \/ Commit(t)

Next ==
  \E t \in Requests :
    \/ \E c \in Workload : Receive(t, c)
    \/ Serve(t)
    \/ Orphan(t) \/ LateCommit(t) \/ Fail(t)

Spec == Init /\ [][Next]_vars

\* The HTTP server schedules every accepted connection, and run_sql returns
\* or is cut off after 120 seconds.
FairSpec ==
  Spec /\ \A t \in Requests : WF_vars(Serve(t))

-----------------------------------------------------------------------------
(***************************************************************************)
(* Properties.                                                             *)
(***************************************************************************)

\* The lifecycles the runtime documents promise: command `type' takes a record
\* from one state to another (docs/ERP_EXPENSE_RUNTIME_VERTICAL.md, lines
\* 19-27, and the "Connected API" sections of the contract, payment-application,
\* sales, procurement, invoice, marketing and fund documents).
Lifecycle(family, type, from, to) ==
  \/ /\ family \in {"expense", "contract", "payment"}
     /\ <<type, from, to>> \in
          {<<"submit", "draft", "submitted">>, <<"approve", "submitted", "approved">>,
           <<"reject", "submitted", "rejected">>,
           <<"resubmit", "rejected", "submitted">>}
  \/ /\ family = "expense"
     /\ <<type, from, to>> \in
          {<<"update", "draft", "draft">>, <<"void", "draft", "voided">>,
           <<"void", "rejected", "voided">>}
  \/ /\ family = "contract"
     /\ \/ type = "update" /\ from = to /\ from \in {"draft", "submitted"}
        \/ type = "void" /\ from # "deleted" /\ to = "deleted"
  \/ /\ family = "payment"
     /\ \/ type = "update" /\ from = "submitted" /\ to = "submitted"
        \/ type = "void" /\ from # "voided" /\ to = "voided"
  \/ /\ family = "invoice"
     /\ type = "delete" /\ from # "deleted" /\ to = "deleted"
  \/ /\ family = "revenue"
     /\ \/ type = "update" /\ from = to /\ from \in {"expected", "received"}
        \/ type = "confirm_received" /\ from = "expected" /\ to = "received"
        \/ type = "delete" /\ from \in {"expected", "received"} /\ to = "deleted"
  \/ /\ family = "supplier"
     /\ \/ type = "submit_review" /\ from = "draft" /\ to = "pending_review"
        \/ /\ type = "review" /\ from = "pending_review"
           /\ to \in {"active", "suspended"}
        \/ /\ <<type, to>> \in {<<"update", from>>, <<"blacklist", "blacklisted">>,
                             <<"void", "voided">>}
           /\ from # "voided"
  \/ /\ family = "marketing" /\ from # "deleted"
     /\ \/ type = "update" /\ to \in {from, "completed"}
        \/ type = "effect" /\ to \in {"active", "completed"}
        \/ type = "delete" /\ to = "deleted"
  \/ /\ family = "plan" /\ from \in {"planned", "updated"}
     /\ <<type, to>> \in {<<"update", "updated">>, <<"delete", "deleted">>}
  \/ /\ family = "dispatch"
     /\ type = "approve" /\ from = "pending" /\ to = "approved"

\* The states a record of the family is created in.
InitialStates(family) ==
  CASE family = "invoice" -> {"issued"}
    [] family = "revenue" -> {"expected", "received"}
    [] family = "marketing" -> {"active"}
    [] family = "plan" -> {"planned"}
    [] family = "dispatch" -> {"pending"}
    [] OTHER -> {"draft"}

\* Revision r is what its own command makes of revision p.
Succeeds(r, p) ==
  /\ p.agg = r.agg /\ r.rev = p.rev + 1
  /\ Lifecycle(FamilyOf[r.agg], r.event.type, p.state, r.state)
  /\ FamilyOf[r.agg] # "revenue" => r.owner = p.owner
  /\ r.event.type \notin {"update", "effect"} => r.data = p.data
  /\ (\/ FamilyOf[r.agg] = "expense" /\ r.event.type \in {"update", "void"}
      \/ FamilyOf[r.agg] = "plan" /\ r.event.type \in {"update", "delete"})
       => r.by = r.owner

\* Every stored revision is a first one made by a create command, or follows by
\* one legal command from the stored revision just below it: whatever the
\* interleaving, no revision is computed from a stale or skipped one, none
\* loses the fields an earlier one set, and history has no gap.
LegalHistory ==
  \A r \in rows :
    \/ /\ r.rev = 1 /\ r.event.type = "create"
       /\ r.state \in InitialStates(FamilyOf[r.agg])
       /\ ProtectsImported(FamilyOf[r.agg]) => r.agg \notin Imported
    \/ \E p \in rows : Succeeds(r, p)

\* Two requests never both extend the same revision, and one command event
\* never yields two revisions of an aggregate, however often it is retried.
NoFork ==
  \A r, s \in rows :
    r.agg = s.agg /\ (r.rev = s.rev \/ r.event = s.event) => r = s

\* An accepted command is settled in the history: the revision it reports
\* exists (written by it or by the request that beat it), or its own event
\* was applied by an earlier attempt.
AcceptedIsSettled ==
  \A t \in Requests :
    reply[t].kind = "accepted" =>
      \E r \in rows :
        /\ r.agg = cmd[t].agg
        /\ r.rev = reply[t].result.rev \/ r.event = EventOf(cmd[t])

\* When clients mint a key per command, every revision can be traced: the
\* receipt of its key is for the command that wrote it, and its event has an
\* audit record on the same aggregate.  Holds although the receipt, revision
\* and audit inserts each give way to a conflict on their own.
RevisionsTraceable ==
  \A r \in rows :
    /\ \E q \in receipts : q.key = r.event.key
    /\ \A q \in receipts :
         q.key = r.event.key => q.cmd.agg = r.agg /\ EventOf(q.cmd) = r.event
    /\ \E a \in audits : a.event = r.event /\ a.agg = r.agg

\* A payment application on file fitted, beside the imported ones, in a revision
\* its contract really had, even if the contract changed or was voided between
\* the quote and the transaction.
ApplicationsQuoted ==
  \A r \in rows :
    FamilyOf[r.agg] = "payment" /\ r.event.type = "create" =>
      LET a     == ContractOf[r.agg]
          quota == {Amount[p.data] : p \in {q \in rows : q.agg = a /\ q.state # "deleted"}}
                   \cup (IF a \in Imported THEN {SourceAmount[a]} ELSE {})
      IN  \E n \in quota : SourceApplied[a] + Amount[r.data] <= n

\* A decided record stays decided: no request, not even one admitted before
\* the decision, adds a revision after a final state.
Final(r) ==
  \/ FamilyOf[r.agg] = "expense" /\ r.state \in {"approved", "voided"}
  \/ /\ FamilyOf[r.agg] \in {"contract", "invoice", "revenue", "marketing", "plan"}
     /\ r.state = "deleted"
  \/ FamilyOf[r.agg] \in {"payment", "supplier"} /\ r.state = "voided"
  \/ FamilyOf[r.agg] = "dispatch" /\ r.state = "approved"

DecisionsStand ==
  [][\A r \in rows' \ rows : ~ \E p \in rows : p.agg = r.agg /\ Final(p)]_vars

\* The command store is append-only: receipts, revisions and audit events
\* are never changed or removed.
StoreAppendOnly ==
  [][/\ receipts \subseteq receipts'
     /\ rows \subseteq rows'
     /\ audits \subseteq audits']_vars

\* The pipeline implements the indivisible read-check-append register.
Register == INSTANCE CommandRegister
ImplementsRegister == Register!Spec

\* Every request the service takes up is answered.
EveryRequestAnswered ==
  \A t \in Requests : phase[t] # "idle" ~> reply[t].kind # "none"

-----------------------------------------------------------------------------
(***************************************************************************)
(* A promise of the documents that the code does not keep (violation run). *)
(***************************************************************************)

\* "Each accepted command writes: one immutable ... projection revision."
AcceptedWritesRevision ==
  \A t \in Requests :
    reply[t].kind = "accepted" =>
      \E r \in rows : r.agg = cmd[t].agg /\ r.event = EventOf(cmd[t])

=============================================================================
